---- MODULE Spec2Model ----
(***************************************************************************)
(* Crossword generator (src/src/types.ts, body of puzzleGenerator) and the *)
(* solving state kept by the presentation layer (src/src/App.tsx).         *)
(*                                                                         *)
(* Words are sequences of one-letter strings.  Grid coordinates are the    *)
(* 0-based row and column of the code; sequences are 1-based, so the       *)
(* element the code calls a[i] is a[i + 1] here.                           *)
(* Scores are kept in quarter units (Score4 = 4 x score) so that the       *)
(* half-integer centrality penalty stays an integer.                       *)
(***************************************************************************)
EXTENDS Integers, Sequences, FiniteSets, TLC

GRID_SIZE == 15

MAX_ATTEMPTS == 8

MAX_PLACED == 28

CENTER == 7

Idx == 0 .. (GRID_SIZE - 1)

Abs(x) == IF x < 0 THEN -x ELSE x

(***************************************************************************)
(* Inputs: word pools and solution-word lists.                             *)
(***************************************************************************)
Entry(w, c) == [word |-> w, clue |-> c]

PoolTable == <<Entry(<<"T","A","B","L","E">>, "c1"), Entry(<<"C","A","B","I","N","E","T">>, "c2")>>

PoolFirst == <<Entry(<<"A","B","C","D","E">>, "c1"), Entry(<<"A","F","G","H","I","J","K">>, "c2")>>

PoolSingle == <<Entry(<<"A","B">>, "c1")>>

PoolPairs == <<Entry(<<"A","B">>, "c1"), Entry(<<"B","A">>, "c2"), Entry(<<"A","B","A">>, "c3")>>

PoolWords == <<Entry(<<"C","A","T">>, "c1"), Entry(<<"T","A","R">>, "c2"), Entry(<<"A","R","T">>, "c3")>>

\* A word that exactly fills a row or a column, a word one letter too long,
\* and a word that crosses the first only when the first is placed down.
PoolLong ==
  <<Entry(<<"A","B","C","D","E","F","G","H","I","J","K","L","M","N","O">>, "c1"),
    Entry(<<"A","B","C","D","E","F","G","H","I","J","K","L","M","N","O","P">>, "c2"),
    Entry(<<"Q","R","S","T","U","V","W","X","H">>, "c3")>>

\* Two words that cross in one letter.
PoolCross == <<Entry(<<"A","B">>, "c1"), Entry(<<"B","X">>, "c2")>>

\* CD shares no letter with AB and crosses it only through BC.
PoolChain == <<Entry(<<"A","B">>, "c1"), Entry(<<"C","D">>, "c2"), Entry(<<"B","C">>, "c3")>>

Scenarios ==
  { [pool |-> PoolTable,  solutionWords |-> << <<"X","A","B">> >>],
    [pool |-> PoolFirst,  solutionWords |-> << <<"A","K">> >>],
    [pool |-> PoolSingle, solutionWords |-> << <<"X","B">>, <<"X","Y","Z">> >>],
    [pool |-> PoolSingle, solutionWords |-> << >>],
    [pool |-> PoolPairs,  solutionWords |-> << <<"A","B","A">> >>],
    [pool |-> PoolWords,  solutionWords |-> << <<"R","A","T">> >>],
    [pool |-> PoolLong,   solutionWords |-> << <<"P">> >>],
    [pool |-> PoolChain,  solutionWords |-> << <<"D">> >>],
    [pool |-> PoolCross,  solutionWords |-> << <<"X">> >>] }

(***************************************************************************)
(* Pure helpers of the generator.                                          *)
(***************************************************************************)
createEmptyGrid == [r \in Idx |-> [c \in Idx |-> ""]]

\* Fisher-Yates, lines 42-49: js[k] is the index j drawn in the k-th
\* iteration, the one with i = Len(arr) - k.
RECURSIVE ShuffleFrom(_, _, _)
ShuffleFrom(a, k, js) ==
  IF k > Len(a) - 1 THEN a
  ELSE LET i == Len(a) - k
           j == js[k]
           b == [a EXCEPT ![i + 1] = a[j + 1], ![j + 1] = a[i + 1]]
       IN  ShuffleFrom(b, k + 1, js)

shuffle(arr, js) == ShuffleFrom(arr, 1, js)

\* The index vectors Math.floor(Math.random() * (i + 1)) can produce.
DrawSeqs(n) ==
  IF n <= 1 THEN { <<>> }
  ELSE { js \in [1 .. (n - 1) -> 0 .. (n - 1)] : \A k \in 1 .. (n - 1) : js[k] <= n - k }

\* Variant of the filter of line 229 that keeps every word.
FitsGrid_KeepsAll(w) == TRUE

FitsGrid(w) == Len(w.word) <= GRID_SIZE

\* Row and column of the i-th letter (0-based) of a word starting at (row, col).
RowOf(row, direction, i) == IF direction = "across" THEN row ELSE row + i

ColOf(col, direction, i) == IF direction = "across" THEN col + i ELSE col

\* TRUE when the span of the placed word pw contains the cell (r, c).
Covers(pw, r, c) ==
  IF pw.direction = "across"
  THEN r = pw.row /\ c >= pw.col /\ c < pw.col + Len(pw.word)
  ELSE c = pw.col /\ r >= pw.row /\ r < pw.row + Len(pw.word)

\* Lines 63-75; a cell without an entry in the map has the empty set.
getOccupied(placed) ==
  [r \in Idx |-> [c \in Idx |->
     { placed[k].direction : k \in { k \in 1 .. Len(placed) : Covers(placed[k], r, c) } }]]

\* canPlaceWord without the direction rules of lines 121-129: an occupied
\* cell is accepted as soon as its letter matches.
canPlaceWord_NoDirectionRule(grid, word, row, col, direction, placed, occupied) ==
  LET len == Len(word)
      isAcross == direction = "across"
      LetterOk(i) ==
        LET r == IF isAcross THEN row ELSE row + i
            c == IF isAcross THEN col + i ELSE col
            existing == grid[r][c]
        IN  IF existing # ""
            THEN existing = word[i + 1]
            ELSE IF isAcross
                 THEN /\ ~(r > 0 /\ grid[r - 1][c] # "")
                      /\ ~(r < GRID_SIZE - 1 /\ grid[r + 1][c] # "")
                 ELSE /\ ~(c > 0 /\ grid[r][c - 1] # "")
                      /\ ~(c < GRID_SIZE - 1 /\ grid[r][c + 1] # "")
      intersectionCount ==
        Cardinality({ i \in 0 .. (len - 1) :
                        grid[RowOf(row, direction, i)][ColOf(col, direction, i)] # "" })
  IN  /\ ~(isAcross /\ col + len > GRID_SIZE)
      /\ ~(~isAcross /\ row + len > GRID_SIZE)
      /\ IF isAcross
         THEN ~(col > 0 /\ grid[row][col - 1] # "")
         ELSE ~(row > 0 /\ grid[row - 1][col] # "")
      /\ IF isAcross
         THEN ~(col + len < GRID_SIZE /\ grid[row][col + len] # "")
         ELSE ~(row + len < GRID_SIZE /\ grid[row + len][col] # "")
      /\ \A i \in 0 .. (len - 1) : LetterOk(i)
      /\ ~(Len(placed) > 0 /\ intersectionCount = 0)

\* canPlaceWord without the adjacency rule of lines 133-158: an empty cell
\* is accepted whatever lies beside it.
canPlaceWord_NoAdjacencyRule(grid, word, row, col, direction, placed, occupied) ==
  LET len == Len(word)
      isAcross == direction = "across"
      otherDir == IF isAcross THEN "down" ELSE "across"
      LetterOk(i) ==
        LET r == IF isAcross THEN row ELSE row + i
            c == IF isAcross THEN col + i ELSE col
            existing == grid[r][c]
            dirs == occupied[r][c]
        IN  existing # "" =>
              /\ existing = word[i + 1]
              /\ direction \notin dirs
              /\ otherDir \in dirs
      intersectionCount ==
        Cardinality({ i \in 0 .. (len - 1) :
                        grid[RowOf(row, direction, i)][ColOf(col, direction, i)] # "" })
  IN  /\ ~(isAcross /\ col + len > GRID_SIZE)
      /\ ~(~isAcross /\ row + len > GRID_SIZE)
      /\ IF isAcross
         THEN ~(col > 0 /\ grid[row][col - 1] # "")
         ELSE ~(row > 0 /\ grid[row - 1][col] # "")
      /\ IF isAcross
         THEN ~(col + len < GRID_SIZE /\ grid[row][col + len] # "")
         ELSE ~(row + len < GRID_SIZE /\ grid[row + len][col] # "")
      /\ \A i \in 0 .. (len - 1) : LetterOk(i)
      /\ ~(Len(placed) > 0 /\ intersectionCount = 0)

\* Lines 77-166.
canPlaceWord(grid, word, row, col, direction, placed, occupied) ==
  LET len == Len(word)
      isAcross == direction = "across"
      otherDir == IF isAcross THEN "down" ELSE "across"
      LetterOk(i) ==
        LET r == IF isAcross THEN row ELSE row + i
            c == IF isAcross THEN col + i ELSE col
            existing == grid[r][c]
            dirs == occupied[r][c]
        IN  IF existing # ""
            THEN /\ existing = word[i + 1]
                 /\ direction \notin dirs
                 /\ otherDir \in dirs
            ELSE IF isAcross
                 THEN /\ ~(r > 0 /\ grid[r - 1][c] # "")
                      /\ ~(r < GRID_SIZE - 1 /\ grid[r + 1][c] # "")
                 ELSE /\ ~(c > 0 /\ grid[r][c - 1] # "")
                      /\ ~(c < GRID_SIZE - 1 /\ grid[r][c + 1] # "")
      intersectionCount ==
        Cardinality({ i \in 0 .. (len - 1) :
                        grid[RowOf(row, direction, i)][ColOf(col, direction, i)] # "" })
  IN  /\ ~(isAcross /\ col + len > GRID_SIZE)
      /\ ~(~isAcross /\ row + len > GRID_SIZE)
      /\ IF isAcross
         THEN ~(col > 0 /\ grid[row][col - 1] # "")
         ELSE ~(row > 0 /\ grid[row - 1][col] # "")
      /\ IF isAcross
         THEN ~(col + len < GRID_SIZE /\ grid[row][col + len] # "")
         ELSE ~(row + len < GRID_SIZE /\ grid[row + len][col] # "")
      /\ \A i \in 0 .. (len - 1) : LetterOk(i)
      /\ ~(Len(placed) > 0 /\ intersectionCount = 0)

\* Lines 168-176.
placeWord(grid, word, row, col, direction) ==
  [r \in Idx |-> [c \in Idx |->
     IF direction = "across"
     THEN IF r = row /\ c >= col /\ c < col + Len(word) THEN word[c - col + 1] ELSE grid[r][c]
     ELSE IF c = col /\ r >= row /\ r < row + Len(word) THEN word[r - row + 1] ELSE grid[r][c]]]

\* 4 x the score of lines 196-206.
\* The score with 1 for the 10 of line 201, in quarter units.
Score4_IntersectionWorthOne(grid, word, r, c, dir) ==
  LET isAcross == dir = "across"
      hits == Cardinality({ i \in 0 .. (Len(word) - 1) :
                LET g == grid[RowOf(r, dir, i)][ColOf(c, dir, i)]
                IN  g = word[i + 1] /\ g # "" })
      dr == IF isAcross THEN 2 * r - 2 * CENTER ELSE 2 * r + Len(word) - 2 * CENTER
      dc == IF isAcross THEN 2 * c + Len(word) - 2 * CENTER ELSE 2 * c - 2 * CENTER
  IN  4 * hits - (Abs(dr) + Abs(dc))

Score4(grid, word, r, c, dir) ==
  LET isAcross == dir = "across"
      hits == Cardinality({ i \in 0 .. (Len(word) - 1) :
                LET g == grid[RowOf(r, dir, i)][ColOf(c, dir, i)]
                IN  g = word[i + 1] /\ g # "" })
      dr == IF isAcross THEN 2 * r - 2 * CENTER ELSE 2 * r + Len(word) - 2 * CENTER
      dc == IF isAcross THEN 2 * c + Len(word) - 2 * CENTER ELSE 2 * c - 2 * CENTER
  IN  40 * hits - (Abs(dr) + Abs(dc))

NoPlacement == [row |-> -1, col |-> -1, direction |-> "none", score |-> 0]

\* Position of (dir, r, c) in the scan of lines 188-194.
ScanRank(dir, r, c) ==
  (IF dir = "across" THEN 0 ELSE GRID_SIZE * GRID_SIZE) + r * GRID_SIZE + c

\* BestOf with >= for the > of line 208: the last placement of the scan with
\* the maximal score.
BestOf_LastMaximum(scored) ==
  IF scored = {} THEN NoPlacement
  ELSE CHOOSE b \in scored :
         \A o \in scored :
           \/ o.score < b.score
           \/ /\ o.score = b.score
              /\ ScanRank(b.direction, b.row, b.col) >= ScanRank(o.direction, o.row, o.col)

\* The first placement of the scan with the maximal score (lines 208-210).
BestOf(scored) ==
  IF scored = {} THEN NoPlacement
  ELSE CHOOSE b \in scored :
         \A o \in scored :
           \/ o.score < b.score
           \/ /\ o.score = b.score
              /\ ScanRank(b.direction, b.row, b.col) <= ScanRank(o.direction, o.row, o.col)

\* findBestPlacement without the canPlaceWord test of line 195 and with a
\* score that starts at 10: every scanned position is a candidate.
findBestPlacement_NoLegalityTest(grid, word, placed, occupied) ==
  LET Scanned(dir) ==
        LET isAcross == dir = "across"
            maxR == IF isAcross THEN GRID_SIZE ELSE GRID_SIZE - Len(word)
            maxC == IF isAcross THEN GRID_SIZE - Len(word) ELSE GRID_SIZE
        IN  { <<dir, r, c>> : r \in 0 .. (maxR - (IF isAcross THEN 1 ELSE 0)),
                              c \in 0 .. (maxC - (IF isAcross THEN 0 ELSE 1)) }
      scored == { [row |-> t[2], col |-> t[3], direction |-> t[1],
                   score |-> 40 + Score4(grid, word, t[2], t[3], t[1])] :
                  t \in Scanned("across") \cup Scanned("down") }
  IN  CHOOSE b \in { BestOf(s) : s \in { scored } } : TRUE

\* Lines 178-217.
findBestPlacement(grid, word, placed, occupied) ==
  LET Scanned(dir) ==
        LET isAcross == dir = "across"
            maxR == IF isAcross THEN GRID_SIZE ELSE GRID_SIZE - Len(word)
            maxC == IF isAcross THEN GRID_SIZE - Len(word) ELSE GRID_SIZE
        IN  { <<dir, r, c>> : r \in 0 .. (maxR - (IF isAcross THEN 1 ELSE 0)),
                              c \in 0 .. (maxC - (IF isAcross THEN 0 ELSE 1)) }
      legal == { t \in Scanned("across") \cup Scanned("down") :
                   canPlaceWord(grid, word, t[2], t[3], t[1], placed, occupied) }
      scored == { [row |-> t[2], col |-> t[3], direction |-> t[1],
                   score |-> Score4(grid, word, t[2], t[3], t[1])] : t \in legal }
  IN  CHOOSE b \in { BestOf(s) : s \in { scored } } : TRUE

PlacedWord(entry, row, col, direction) ==
  [word |-> entry.word, clue |-> entry.clue, row |-> row, col |-> col,
   direction |-> direction, number |-> 0]

(***************************************************************************)
(* Clue numbering, cell grid and solution overlay (lines 270-408).         *)
(* A value of type T | null is <<>> for null and <<v>> for the value v.    *)
(***************************************************************************)
Null == <<>>

Some(v) == <<v>>

\* The comparator of lines 275-278.
Before(a, b) == IF a.row # b.row THEN a.row < b.row ELSE a.col < b.col

\* Array.prototype.sort is stable: words with equal keys keep their order.
RECURSIVE InsertSorted(_, _)
InsertSorted(sorted, pw) ==
  IF sorted = <<>> THEN <<pw>>
  ELSE IF Before(pw, sorted[Len(sorted)])
       THEN Append(InsertSorted(SubSeq(sorted, 1, Len(sorted) - 1), pw), sorted[Len(sorted)])
       ELSE Append(sorted, pw)

RECURSIVE SortPlaced(_)
SortPlaced(ws) ==
  IF ws = <<>> THEN <<>>
  ELSE InsertSorted(SortPlaced(SubSeq(ws, 1, Len(ws) - 1)), ws[Len(ws)])

\* The loop of lines 280-286 from word k on; numberMap is a set of
\* <<row, col, number>> and num the next number to hand out.
RECURSIVE NumberFrom(_, _, _, _)
NumberFrom(ws, k, numberMap, num) ==
  IF k > Len(ws) THEN ws
  ELSE LET pw == ws[k]
           known == { e \in numberMap : e[1] = pw.row /\ e[2] = pw.col }
       IN  IF known = {}
           THEN NumberFrom([ws EXCEPT ![k].number = num], k + 1,
                           numberMap \cup { <<pw.row, pw.col, num>> }, num + 1)
           ELSE NumberFrom([ws EXCEPT ![k].number = (CHOOSE e \in known : TRUE)[3]], k + 1,
                           numberMap, num)

\* numberClues without the sort of lines 275-278.
numberClues_Unsorted(ws) == NumberFrom(ws, 1, {}, 1)

\* numberClues handing out a fresh number to every word, the numberMap
\* lookup of line 282 left out.
numberClues_NoSharing(ws) ==
  LET sorted == SortPlaced(ws)
  IN  [k \in 1 .. Len(sorted) |-> [sorted[k] EXCEPT !.number = k]]

\* Lines 270-286.
numberClues(ws) == NumberFrom(SortPlaced(ws), 1, {}, 1)

\* Lines 289-303.
buildCellGrid(g) ==
  [r \in Idx |-> [c \in Idx |->
     [letter |-> g[r][c], userInput |-> "", isBlack |-> (g[r][c] = ""),
      number |-> Null, acrossClue |-> Null, downClue |-> Null,
      isSolutionCell |-> FALSE, solutionIndex |-> Null,
      revealed |-> FALSE, checked |-> FALSE, isCorrect |-> Null]]]

\* setClue that writes the clue reference only into the start cell of the word.
setClue_StartCellOnly(cg, pw) ==
  [r \in Idx |-> [c \in Idx |->
     LET cell == cg[r][c]
         numbered ==
           IF r = pw.row /\ c = pw.col /\ (cell.number = Null \/ pw.number < cell.number[1])
           THEN [cell EXCEPT !.number = Some(pw.number)]
           ELSE cell
     IN  IF ~(r = pw.row /\ c = pw.col) THEN numbered
         ELSE IF pw.direction = "across"
              THEN [numbered EXCEPT !.acrossClue = Some(pw.number)]
              ELSE [numbered EXCEPT !.downClue = Some(pw.number)]]]

\* One iteration of the loop of lines 306-321.
setClue(cg, pw) ==
  [r \in Idx |-> [c \in Idx |->
     LET cell == cg[r][c]
         numbered ==
           IF r = pw.row /\ c = pw.col /\ (cell.number = Null \/ pw.number < cell.number[1])
           THEN [cell EXCEPT !.number = Some(pw.number)]
           ELSE cell
     IN  IF ~Covers(pw, r, c) THEN numbered
         ELSE IF pw.direction = "across"
              THEN [numbered EXCEPT !.acrossClue = Some(pw.number)]
              ELSE [numbered EXCEPT !.downClue = Some(pw.number)]]]

RECURSIVE SetCluesFrom(_, _, _)
SetCluesFrom(cg, ws, k) ==
  IF k > Len(ws) THEN cg ELSE SetCluesFrom(setClue(cg, ws[k]), ws, k + 1)

\* Lines 305-321.
setClues(cg, ws) == SetCluesFrom(cg, ws, 1)

\* Lines 325-335: the indices (0-based) of the placed words through (r, c).
cellToWords(ws, r, c) == { k - 1 : k \in { k \in 1 .. Len(ws) : Covers(ws[k], r, c) } }

AllCells == [k \in 1 .. (GRID_SIZE * GRID_SIZE) |-> <<(k - 1) \div GRID_SIZE, (k - 1) % GRID_SIZE>>]

\* Lines 337-344: the letter cells in row-major order.
letterCells(cg) ==
  LET IsLetter(p) == ~cg[p[1]][p[2]].isBlack
  IN  SelectSeq(AllCells, IsLetter)

\* The orders of the letter cells that decide candidates[0]: the result of
\* shuffle(...).filter(...)[0] depends only on which cell comes first, and
\* Fisher-Yates can bring any cell to the front.
RECURSIVE Without(_, _)
Without(s, x) ==
  IF s = <<>> THEN <<>>
  ELSE IF s[1] = x THEN Without(Tail(s), x) ELSE <<s[1]>> \o Without(Tail(s), x)

FrontOrders(cells) ==
  IF cells = <<>> THEN { <<>> }
  ELSE { <<cells[k]>> \o Without(cells, cells[k]) : k \in 1 .. Len(cells) }

CellKey(p) == <<p[1], p[2]>>

\* The filter of lines 352-362.
strictCandidates(sh, cg, ws, letter, usedC, usedW) ==
  LET Ok(lc) == /\ cg[lc[1]][lc[2]].letter = letter
                /\ CellKey(lc) \notin usedC
                /\ \A w \in cellToWords(ws, lc[1], lc[2]) : w \notin usedW
  IN  SelectSeq(sh, Ok)

\* The fallback filter without the usedCells test of line 381.
fallbackCandidates_IgnoresUsed(sh, cg, letter, usedC) ==
  LET Ok(lc) == cg[lc[1]][lc[2]].letter = letter
  IN  SelectSeq(sh, Ok)

\* The filter of lines 379-383.
fallbackCandidates(sh, cg, letter, usedC) ==
  LET Ok(lc) == /\ cg[lc[1]][lc[2]].letter = letter
                /\ CellKey(lc) \notin usedC
  IN  SelectSeq(sh, Ok)

\* Line 398: letterCells.find(...), <<>> when there is none.
anyUnusedCell(cells, usedC) ==
  LET Free(lc) == CellKey(lc) \notin usedC
  IN  SelectSeq(cells, Free)

\* Lines 366-369 (and 387-390, 400-403).
markSolutionCell(cg, p, i) ==
  [cg EXCEPT ![p[1]][p[2]].isSolutionCell = TRUE, ![p[1]][p[2]].solutionIndex = Some(i)]

\* Fallback B without the overwrite of line 404.
overwriteLetter_Skip(cg, p, letter) == cg

\* The overwrite of line 404 on a cell grid whose rows each hold one cell
\* object 15 times: the letter of the whole row changes.
overwriteLetter_SharedRow(cg, p, letter) ==
  [cg EXCEPT ![p[1]] = [c \in Idx |-> [cg[p[1]][c] EXCEPT !.letter = letter]]]

\* Line 404: fallback B overwrites the letter of the chosen cell.
overwriteLetter(cg, p, letter) == [cg EXCEPT ![p[1]][p[2]].letter = letter]

SolutionEntry(p, i) == [row |-> p[1], col |-> p[2], index |-> i]

\* Lines 372-375 (and 392-395): the words of the chosen cell become used.
markWordsUsed(usedW, ws, p) == usedW \cup cellToWords(ws, p[1], p[2])

(***************************************************************************)
(* State of generatePuzzle: its inputs, its position and its locals.       *)
(***************************************************************************)
VARIABLES
  wordPool,       \* input: the word pool
  solutionWords,  \* input: the solution-word list
  pc,             \* position in generatePuzzle
  solutionWord,   \* line 220
  attempt,        \* line 226
  grid,           \* line 227
  placed,         \* line 228
  shuffled,       \* line 229
  wi,             \* loop index i of line 247
  bestPlaced,     \* line 222
  bestGrid,       \* line 223
  cellGrid,       \* line 289
  solutionCells,  \* line 346
  usedCells,      \* line 347
  usedWords,      \* line 348
  si,             \* loop index i of line 350
  tier            \* branch taken by the last iteration of the loop of line 350

\* The number of user actions a session makes on one puzzle.
VARIABLES
  budget

MaxUserActions == 2

inputVars == <<wordPool, solutionWords, budget>>

attemptVars == <<attempt, grid, placed, shuffled, wi>>

bestVars == <<bestPlaced, bestGrid>>

overlayVars == <<cellGrid, solutionCells, usedCells, usedWords, si, tier>>

(***************************************************************************)
(* State of the App (App.tsx lines 22-34) on a desktop window.  The         *)
(* visibility flags, the dark mode, the solution-word input and the timer   *)
(* value are left out: no handler reads them to decide what it writes to    *)
(* the grid, the selection, the direction or the hint counters.             *)
(***************************************************************************)
VARIABLES
  uiGrid,           \* App.tsx line 23: grid
  selectedCell,     \* App.tsx line 24: Null or Some(<<row, col>>)
  direction,        \* App.tsx line 25
  isComplete,       \* App.tsx line 27
  isRunning,        \* App.tsx line 29
  hintsLetterUsed,  \* App.tsx line 33
  hintsWordUsed,    \* App.tsx line 34
  moves,            \* user actions handled since the puzzle was mounted
  timer,            \* App.tsx line 28
  thrown            \* TRUE when the last handler call ended in a TypeError

appVars == <<uiGrid, selectedCell, direction, isComplete, isRunning,
             hintsLetterUsed, hintsWordUsed, moves, timer, thrown>>

(***************************************************************************)
(* The random source when it is seeded: Math.random() returns              *)
(* rng / RandDen and steps rng.  firstPuzzle keeps the puzzle of an         *)
(* earlier invocation for comparison.                                       *)
(***************************************************************************)
VARIABLES
  seed,         \* the state the random source starts every invocation from
  rng,          \* the state of the random source
  firstPuzzle   \* Null, or Some(the puzzle the first invocation returned)

replayVars == <<seed, rng, firstPuzzle>>

\* The layouts (placed, grid) the attempts of an invocation ended with, in
\* the order of the attempts; kept for comparison with the returned layout.
VARIABLES
  attemptLog

observerVars == <<replayVars, attemptLog>>

vars == <<wordPool, solutionWords, budget, pc, solutionWord, attempt, grid, placed,
          shuffled, wi, bestPlaced, bestGrid, cellGrid, solutionCells,
          usedCells, usedWords, si, tier, appVars, observerVars>>

\* The locals before generatePuzzle has declared them.
GeneratorInit ==
  /\ pc = "pick"
  /\ solutionWord = <<>>
  /\ attempt = 0
  /\ grid = createEmptyGrid
  /\ placed = <<>>
  /\ shuffled = <<>>
  /\ wi = 0
  /\ bestPlaced = <<>>
  /\ bestGrid = createEmptyGrid
  /\ cellGrid = buildCellGrid(createEmptyGrid)
  /\ solutionCells = <<>>
  /\ usedCells = {}
  /\ usedWords = {}
  /\ si = 0
  /\ tier = "none"

\* App.tsx lines 23-34: the initial values of the useState hooks; grid is
\* set from the puzzle when the generator has returned (Mount).
AppInit ==
  /\ uiGrid = buildCellGrid(createEmptyGrid)
  /\ selectedCell = Null
  /\ direction = "across"
  /\ isComplete = FALSE
  /\ isRunning = TRUE
  /\ hintsLetterUsed = 0
  /\ hintsWordUsed = 0
  /\ moves = 0
  /\ timer = 0
  /\ thrown = FALSE

Init ==
  /\ \E s \in Scenarios : wordPool = s.pool /\ solutionWords = s.solutionWords
  /\ GeneratorInit
  /\ AppInit
  /\ seed = 0 /\ rng = 0 /\ firstPuzzle = Null
  /\ attemptLog = <<>>
  /\ budget = MaxUserActions

\* Line 220 and the declarations of lines 222-223.
PickSolution(k) ==
  /\ pc = "pick"
  /\ solutionWord' = solutionWords[k + 1]
  /\ bestPlaced' = <<>>
  /\ bestGrid' = createEmptyGrid
  /\ attempt' = 0
  /\ pc' = "attempt"
  /\ UNCHANGED <<inputVars, appVars, grid, placed, shuffled, wi, overlayVars>>

\* Line 220 with an empty list: solutionWords[0] is undefined.
PickUndefined ==
  /\ pc = "pick"
  /\ Len(solutionWords) = 0
  /\ solutionWord' = <<>>
  /\ bestPlaced' = <<>>
  /\ bestGrid' = createEmptyGrid
  /\ attempt' = 0
  /\ pc' = "attempt"
  /\ UNCHANGED <<inputVars, appVars, grid, placed, shuffled, wi, overlayVars>>

\* Lines 226-245: a new attempt shuffles the pool and seeds the grid.
StartAttempt(js) ==
  /\ pc = "attempt"
  /\ attempt < MAX_ATTEMPTS
  /\ LET sh == SelectSeq(shuffle(wordPool, js), FitsGrid)
     IN  /\ shuffled' = sh
         /\ IF Len(sh) > 0
            THEN LET first == sh[1]
                     startCol == (GRID_SIZE - Len(first.word)) \div 2
                     startRow == GRID_SIZE \div 2
                 IN  /\ grid' = placeWord(createEmptyGrid, first.word, startRow, startCol, "across")
                     /\ placed' = << PlacedWord(first, startRow, startCol, "across") >>
            ELSE /\ grid' = createEmptyGrid
                 /\ placed' = <<>>
  /\ wi' = 1
  /\ pc' = "place"
  /\ UNCHANGED <<inputVars, appVars, solutionWord, attempt, bestVars, overlayVars>>

\* The placement loop trying, in every iteration, each word of the attempt
\* that is not placed yet instead of the word at index i only.
PlaceStep_RetriesSkippedWords ==
  /\ pc = "place"
  /\ wi < Len(shuffled) /\ Len(placed) < MAX_PLACED
  /\ \E occupied \in { getOccupied(placed) } :
       LET IsPlaced(e) == \E k \in 1 .. Len(placed) : placed[k].word = e.word
           Placeable(e) ==
             /\ ~IsPlaced(e)
             /\ findBestPlacement(grid, e.word, placed, occupied) # NoPlacement
             /\ findBestPlacement(grid, e.word, placed, occupied).score > 0
           ready == SelectSeq(shuffled, Placeable)
       IN  IF ready # <<>>
           THEN \E placement \in { findBestPlacement(grid, ready[1].word, placed, occupied) } :
                  /\ grid' = placeWord(grid, ready[1].word, placement.row, placement.col, placement.direction)
                  /\ placed' = Append(placed, PlacedWord(ready[1], placement.row, placement.col, placement.direction))
           ELSE UNCHANGED <<grid, placed>>
  /\ wi' = wi + 1
  /\ UNCHANGED <<inputVars, appVars, pc, solutionWord, attempt, shuffled, bestVars, overlayVars>>

\* Lines 247-262: one iteration of the placement loop.
PlaceStep ==
  /\ pc = "place"
  /\ wi < Len(shuffled) /\ Len(placed) < MAX_PLACED
  /\ \E occupied \in { getOccupied(placed) } :
       \E placement \in { findBestPlacement(grid, shuffled[wi + 1].word, placed, occupied) } :
         LET entry == shuffled[wi + 1]
         IN  IF placement # NoPlacement /\ placement.score > 0
             THEN /\ grid' = placeWord(grid, entry.word, placement.row, placement.col, placement.direction)
                  /\ placed' = Append(placed, PlacedWord(entry, placement.row, placement.col, placement.direction))
             ELSE UNCHANGED <<grid, placed>>
  /\ wi' = wi + 1
  /\ UNCHANGED <<inputVars, appVars, pc, solutionWord, attempt, shuffled, bestVars, overlayVars>>

\* EndAttempt that keeps the grid of the first attempt when a later attempt
\* replaces bestPlaced.
EndAttempt_StaleGrid ==
  /\ pc = "place"
  /\ ~(wi < Len(shuffled) /\ Len(placed) < MAX_PLACED)
  /\ IF Len(placed) > Len(bestPlaced)
     THEN bestPlaced' = placed /\ bestGrid' = IF bestPlaced = <<>> THEN grid ELSE bestGrid
     ELSE UNCHANGED <<bestPlaced, bestGrid>>
  /\ attempt' = attempt + 1
  /\ grid' = createEmptyGrid
  /\ placed' = <<>>
  /\ shuffled' = <<>>
  /\ wi' = 0
  /\ pc' = "attempt"
  /\ UNCHANGED <<inputVars, appVars, solutionWord, overlayVars>>

\* EndAttempt with >= for the > of line 264: the latest of the attempts that
\* placed the most words is kept.
EndAttempt_KeepsLatestTie ==
  /\ pc = "place"
  /\ ~(wi < Len(shuffled) /\ Len(placed) < MAX_PLACED)
  /\ IF Len(placed) >= Len(bestPlaced)
     THEN bestPlaced' = placed /\ bestGrid' = grid
     ELSE UNCHANGED <<bestPlaced, bestGrid>>
  /\ attempt' = attempt + 1
  /\ grid' = createEmptyGrid
  /\ placed' = <<>>
  /\ shuffled' = <<>>
  /\ wi' = 0
  /\ pc' = "attempt"
  /\ UNCHANGED <<inputVars, appVars, solutionWord, overlayVars>>

\* EndAttempt without the attempt++ of line 226.
EndAttempt_NoIncrement ==
  /\ pc = "place"
  /\ ~(wi < Len(shuffled) /\ Len(placed) < MAX_PLACED)
  /\ IF Len(placed) > Len(bestPlaced)
     THEN bestPlaced' = placed /\ bestGrid' = grid
     ELSE UNCHANGED <<bestPlaced, bestGrid>>
  /\ attempt' = attempt
  /\ grid' = createEmptyGrid
  /\ placed' = <<>>
  /\ shuffled' = <<>>
  /\ wi' = 0
  /\ pc' = "attempt"
  /\ UNCHANGED <<inputVars, appVars, solutionWord, overlayVars>>

\* Lines 264-268: keep the attempt when it placed more words; the attempt's
\* grid, placed and shuffled go out of scope.
EndAttempt ==
  /\ pc = "place"
  /\ ~(wi < Len(shuffled) /\ Len(placed) < MAX_PLACED)
  /\ IF Len(placed) > Len(bestPlaced)
     THEN bestPlaced' = placed /\ bestGrid' = grid
     ELSE UNCHANGED <<bestPlaced, bestGrid>>
  /\ attempt' = attempt + 1
  /\ grid' = createEmptyGrid
  /\ placed' = <<>>
  /\ shuffled' = <<>>
  /\ wi' = 0
  /\ pc' = "attempt"
  /\ UNCHANGED <<inputVars, appVars, solutionWord, overlayVars>>

\* NumberAndBuild with usedCells and usedWords (lines 347-348) kept from the
\* previous invocation, as module-level sets would be.
NumberAndBuild_SharedUsedSets ==
  /\ pc = "attempt"
  /\ ~(attempt < MAX_ATTEMPTS)
  /\ \E numbered \in { numberClues(bestPlaced) } :
       /\ bestPlaced' = numbered
       /\ cellGrid' = setClues(buildCellGrid(bestGrid), numbered)
  /\ solutionCells' = <<>>
  /\ si' = 0
  /\ tier' = "none"
  /\ pc' = "overlay"
  /\ UNCHANGED <<inputVars, appVars, solutionWord, attemptVars, bestGrid, usedCells, usedWords>>

\* Lines 270-348: number the clues, build the cell grid, start the overlay.
NumberAndBuild ==
  /\ pc = "attempt"
  /\ ~(attempt < MAX_ATTEMPTS)
  /\ \E numbered \in { numberClues(bestPlaced) } :
       /\ bestPlaced' = numbered
       /\ cellGrid' = setClues(buildCellGrid(bestGrid), numbered)
  /\ solutionCells' = <<>>
  /\ usedCells' = {}
  /\ usedWords' = {}
  /\ si' = 0
  /\ tier' = "none"
  /\ pc' = "overlay"
  /\ UNCHANGED <<inputVars, appVars, solutionWord, attemptVars, bestGrid>>

\* Line 350 when solutionWord is undefined: reading .length throws.
ThrowUndefined ==
  /\ pc = "overlay"
  /\ Len(solutionWords) = 0
  /\ pc' = "threw"
  /\ UNCHANGED <<inputVars, appVars, solutionWord, attemptVars, bestVars, overlayVars>>

\* Lines 350-408: one iteration of the overlay loop; sh1 and sh2 are the
\* results of the two calls of shuffle(letterCells).
OverlayStep(sh1, sh2) ==
  /\ pc = "overlay"
  /\ Len(solutionWords) > 0
  /\ si < Len(solutionWord)
  /\ LET letter == solutionWord[si + 1]
         candidates == strictCandidates(sh1, cellGrid, bestPlaced, letter, usedCells, usedWords)
         fallback == fallbackCandidates(sh2, cellGrid, letter, usedCells)
         anyCell == anyUnusedCell(letterCells(cellGrid), usedCells)
     IN  IF Len(candidates) > 0
         THEN LET chosen == candidates[1]
              IN  /\ solutionCells' = Append(solutionCells, SolutionEntry(chosen, si))
                  /\ usedCells' = usedCells \cup { CellKey(chosen) }
                  /\ cellGrid' = markSolutionCell(cellGrid, chosen, si)
                  /\ usedWords' = markWordsUsed(usedWords, bestPlaced, chosen)
                  /\ tier' = "strict"
         ELSE IF Len(fallback) > 0
         THEN LET chosen == fallback[1]
              IN  /\ solutionCells' = Append(solutionCells, SolutionEntry(chosen, si))
                  /\ usedCells' = usedCells \cup { CellKey(chosen) }
                  /\ cellGrid' = markSolutionCell(cellGrid, chosen, si)
                  /\ usedWords' = markWordsUsed(usedWords, bestPlaced, chosen)
                  /\ tier' = "fallbackA"
         ELSE IF Len(anyCell) > 0
         THEN LET chosen == anyCell[1]
              IN  /\ solutionCells' = Append(solutionCells, SolutionEntry(chosen, si))
                  /\ usedCells' = usedCells \cup { CellKey(chosen) }
                  /\ cellGrid' = overwriteLetter(markSolutionCell(cellGrid, chosen, si), chosen, letter)
                  /\ usedWords' = usedWords
                  /\ tier' = "fallbackB"
         ELSE /\ UNCHANGED <<solutionCells, usedCells, cellGrid, usedWords>>
              /\ tier' = "skipped"
  /\ si' = si + 1
  /\ UNCHANGED <<inputVars, appVars, pc, solutionWord, attemptVars, bestVars>>

\* Lines 410-415.
Return ==
  /\ pc = "overlay"
  /\ Len(solutionWords) > 0
  /\ ~(si < Len(solutionWord))
  /\ pc' = "returned"
  /\ UNCHANGED <<inputVars, appVars, solutionWord, attemptVars, bestVars, overlayVars>>

\* The value generatePuzzle returns (lines 410-415).
puzzle ==
  [grid |-> cellGrid, placedWords |-> bestPlaced,
   solutionWord |-> solutionWord, solutionCells |-> solutionCells]

Overlay ==
  \E sh1 \in FrontOrders(letterCells(cellGrid)) :
    \E sh2 \in FrontOrders(letterCells(cellGrid)) : OverlayStep(sh1, sh2)

\* One invocation of generatePuzzle; every draw of Math.random() is free.
Next ==
  \/ \E k \in 0 .. (Len(solutionWords) - 1) : PickSolution(k) /\ UNCHANGED observerVars
  \/ PickUndefined /\ UNCHANGED observerVars
  \/ \E js \in DrawSeqs(Len(wordPool)) : StartAttempt(js) /\ UNCHANGED observerVars
  \/ PlaceStep /\ UNCHANGED observerVars
  \/ EndAttempt /\ UNCHANGED observerVars
  \/ NumberAndBuild /\ UNCHANGED observerVars
  \/ ThrowUndefined /\ UNCHANGED observerVars
  \/ Overlay /\ UNCHANGED observerVars
  \/ Return /\ UNCHANGED observerVars

Spec == Init /\ [][Next]_vars

FairSpec == Spec /\ WF_vars(Next)

(***************************************************************************)
(* generatePuzzle invoked twice on a seeded random source.                 *)
(***************************************************************************)
\* The resolution of the random source: Math.random() is x / RandDen for a
\* state x in 0 .. RandDen - 1.
RandDen == 16

Seeds == 0 .. (RandDen - 1)

\* The step of the random source.
RngNext(x) == (5 * x + 3) % RandDen

RECURSIVE RngAfter(_, _)
RngAfter(x, n) == IF n = 0 THEN x ELSE RngAfter(RngNext(x), n - 1)

\* Math.floor(Math.random() * n) of lines 45 and 220 in state x.
RandomIndex(x, n) == (x * n) \div RandDen

\* The indices the loop of lines 44-47 draws for an array of n elements,
\* starting in state x.
ShuffleDraws(x, n) ==
  IF n <= 1 THEN <<>>
  ELSE [k \in 1 .. (n - 1) |-> RandomIndex(RngAfter(x, k - 1), n - k + 1)]

\* The number of values one call of shuffle draws for n elements.
ShuffleCost(n) == IF n <= 1 THEN 0 ELSE n - 1

ReplayInit ==
  /\ \E s \in Scenarios : wordPool = s.pool /\ solutionWords = s.solutionWords
  /\ GeneratorInit
  /\ AppInit
  /\ seed \in Seeds
  /\ rng = seed
  /\ firstPuzzle = Null
  /\ attemptLog = <<>>
  /\ budget = MaxUserActions

\* Line 220 on the seeded source.
SeededPick ==
  /\ Len(solutionWords) > 0
  /\ PickSolution(RandomIndex(rng, Len(solutionWords)))
  /\ rng' = RngNext(rng)
  /\ UNCHANGED <<seed, firstPuzzle, attemptLog>>

\* Line 220 on the seeded source with an empty list.
SeededPickUndefined ==
  /\ PickUndefined
  /\ rng' = RngNext(rng)
  /\ UNCHANGED <<seed, firstPuzzle, attemptLog>>

\* Line 229 on the seeded source.
SeededStartAttempt ==
  /\ StartAttempt(ShuffleDraws(rng, Len(wordPool)))
  /\ rng' = RngAfter(rng, ShuffleCost(Len(wordPool)))
  /\ UNCHANGED <<seed, firstPuzzle, attemptLog>>

\* Lines 350-408 on the seeded source: the second shuffle (line 379) is
\* called only when the strict filter leaves no candidate.
SeededOverlay ==
  \E cells \in { letterCells(cellGrid) } :
    \E sh1 \in { shuffle(cells, ShuffleDraws(rng, Len(cells))) } :
      \E after1 \in { RngAfter(rng, ShuffleCost(Len(cells))) } :
        \E sh2 \in { shuffle(cells, ShuffleDraws(after1, Len(cells))) } :
          /\ OverlayStep(sh1, sh2)
          /\ rng' = IF tier' = "strict" THEN after1
                    ELSE RngAfter(after1, ShuffleCost(Len(cells)))
          /\ UNCHANGED <<seed, firstPuzzle, attemptLog>>

\* App.tsx line 398: generatePuzzle is called again; the random source
\* starts from the same state, so it repeats the values of the first call.
Reinvoke ==
  /\ pc = "returned"
  /\ firstPuzzle = Null
  /\ firstPuzzle' = Some(puzzle)
  /\ rng' = seed
  /\ pc' = "pick"
  /\ UNCHANGED <<inputVars, appVars, solutionWord, attemptVars, bestVars, overlayVars, seed, attemptLog>>

\* The invocation of Spec with the layout of every attempt recorded.
LoggedInit ==
  /\ Init
  /\ wordPool \in {PoolTable, PoolSingle, PoolLong}

\* Line 264 is reached: the attempt's layout is complete.
LoggedEndAttempt ==
  /\ EndAttempt
  /\ attemptLog' = Append(attemptLog, [placed |-> placed, grid |-> grid])
  /\ UNCHANGED replayVars

LoggedNext ==
  \/ \E k \in 0 .. (Len(solutionWords) - 1) : PickSolution(k) /\ UNCHANGED observerVars
  \/ PickUndefined /\ UNCHANGED observerVars
  \/ \E js \in DrawSeqs(Len(wordPool)) : StartAttempt(js) /\ UNCHANGED observerVars
  \/ PlaceStep /\ UNCHANGED observerVars
  \/ LoggedEndAttempt
  \/ NumberAndBuild /\ UNCHANGED observerVars
  \/ ThrowUndefined /\ UNCHANGED observerVars
  \/ Overlay /\ UNCHANGED observerVars
  \/ Return /\ UNCHANGED observerVars

LoggedSpec == LoggedInit /\ [][LoggedNext]_vars

ReplayNext ==
  \/ SeededPick
  \/ SeededPickUndefined
  \/ SeededStartAttempt
  \/ PlaceStep /\ UNCHANGED observerVars
  \/ EndAttempt /\ UNCHANGED observerVars
  \/ NumberAndBuild /\ UNCHANGED observerVars
  \/ ThrowUndefined /\ UNCHANGED observerVars
  \/ SeededOverlay
  \/ Return /\ UNCHANGED observerVars
  \/ Reinvoke

ReplaySpec == ReplayInit /\ [][ReplayNext]_vars

(***************************************************************************)
(* The App (src/src/App.tsx): helpers of the handlers.                     *)
(***************************************************************************)
MAX_LETTER_HINTS == 3

MAX_WORD_HINTS == 1

\* The user actions handled on one puzzle.

\* The letter keys pressed (the test of line 291 lets one letter through).
Keys == {"a", "b", "X"}

MaxSessionActions == 4

MaxTimer == 2

\* String.prototype.toUpperCase on one of the keys.
ToUpper(ch) ==
  CASE ch = "a" -> "A"
    [] ch = "b" -> "B"
    [] OTHER -> ch

genVars == <<inputVars, pc, solutionWord, attemptVars, bestVars, overlayVars>>

OtherDirection(d) == IF d = "across" THEN "down" ELSE "across"

\* Array.prototype.find, given the elements that pass its test in array
\* order: the first of them, Null when there is none.
FirstOf(hits) == IF hits = <<>> THEN Null ELSE Some(hits[1])

\* App.tsx lines 113-127.
getActiveClue ==
  IF selectedCell = Null THEN Null
  ELSE LET cell == uiGrid[selectedCell[1][1]][selectedCell[1][2]]
           clueNum == IF direction = "across" THEN cell.acrossClue ELSE cell.downClue
           altNum == IF direction = "across" THEN cell.downClue ELSE cell.acrossClue
           InDirection(pw) == pw.number = clueNum[1] /\ pw.direction = direction
           InOther(pw) == pw.number = altNum[1] /\ pw.direction = OtherDirection(direction)
       IN  IF clueNum = Null
           THEN IF altNum # Null THEN FirstOf(SelectSeq(puzzle.placedWords, InOther)) ELSE Null
           ELSE FirstOf(SelectSeq(puzzle.placedWords, InDirection))

\* App.tsx lines 129-139.
getClueCells(clue) ==
  { <<RowOf(clue.row, clue.direction, i), ColOf(clue.col, clue.direction, i)>> :
      i \in 0 .. (Len(clue.word) - 1) }

\* moveToNextCell without the isBlack test of line 146.
moveToNextCell_IgnoresBlack(row, col, dir) ==
  LET nr == IF dir = "across" THEN row ELSE row + 1
      nc == IF dir = "across" THEN col + 1 ELSE col
  IN  IF nr < GRID_SIZE /\ nc < GRID_SIZE
      THEN Some(<<nr, nc>>)
      ELSE selectedCell

\* App.tsx lines 141-149: the selection after moveToNextCell.
moveToNextCell(row, col, dir) ==
  LET nr == IF dir = "across" THEN row ELSE row + 1
      nc == IF dir = "across" THEN col + 1 ELSE col
  IN  IF nr < GRID_SIZE /\ nc < GRID_SIZE /\ ~uiGrid[nr][nc].isBlack
      THEN Some(<<nr, nc>>)
      ELSE selectedCell

\* App.tsx lines 151-159: the selection after moveToPrevCell.
moveToPrevCell(row, col, dir) ==
  LET nr == IF dir = "across" THEN row ELSE row - 1
      nc == IF dir = "across" THEN col - 1 ELSE col
  IN  IF nr >= 0 /\ nc >= 0 /\ ~uiGrid[nr][nc].isBlack
      THEN Some(<<nr, nc>>)
      ELSE selectedCell

\* The test of lines 95-104.
allFilledAndCorrect(g) ==
  \A r \in Idx : \A c \in Idx :
    ~g[r][c].isBlack =>
      (g[r][c].userInput # "" /\ ToUpper(g[r][c].userInput) = g[r][c].letter)

\* App.tsx lines 94-111.
checkComplete(g) ==
  IF allFilledAndCorrect(g)
  THEN isComplete' = TRUE /\ isRunning' = FALSE
  ELSE UNCHANGED <<isComplete, isRunning>>

\* A letter input that also overwrites the cell's letter.
typeInto_WritesLetter(cell, upperLetter) ==
  [cell EXCEPT !.letter = upperLetter, !.userInput = upperLetter,
               !.checked = FALSE, !.isCorrect = Null]

\* A letter input without the resets of lines 225-226.
typeInto_KeepsChecked(cell, upperLetter) == [cell EXCEPT !.userInput = upperLetter]

\* App.tsx lines 224-226.
typeInto(cell, upperLetter) ==
  [cell EXCEPT !.userInput = upperLetter, !.checked = FALSE, !.isCorrect = Null]

\* App.tsx lines 244-246, 249-251, 284-286 and 388-390.
clearInput(cell) ==
  [cell EXCEPT !.userInput = "", !.checked = FALSE, !.isCorrect = Null]

\* App.tsx lines 315-318, 331-334 and 346-349.
reveal(cell) ==
  [cell EXCEPT !.userInput = cell.letter, !.revealed = TRUE,
               !.checked = TRUE, !.isCorrect = Some(TRUE)]

\* The direction after the updater of lines 199-204.
toggleDirection(cell, d) ==
  LET newDir == OtherDirection(d)
      clueNum == IF newDir = "across" THEN cell.acrossClue ELSE cell.downClue
  IN  IF clueNum # Null THEN newDir ELSE d

\* A handler runs on the mounted puzzle.
Called ==
  /\ pc = "mounted"
  /\ moves < budget
  /\ moves' = moves + 1

\* A handler is called and returns.
Handling == Called /\ thrown' = FALSE

\* App.tsx line 266: clues.findIndex(c => c.number === number), 0-based, -1
\* when no clue has the number.
findIndexOfNumber(clues, number) ==
  LET hits == { k \in 1 .. Len(clues) : clues[k].number = number }
  IN  IF hits = {} THEN -1 ELSE (CHOOSE k \in hits : \A j \in hits : k <= j) - 1

selectionVars == <<selectedCell, direction>>

statusVars == <<isComplete, isRunning>>

hintVars == <<hintsLetterUsed, hintsWordUsed>>

(***************************************************************************)
(* The App: one action per handler.  No handler calls setPuzzle except     *)
(* newPuzzle, and every handler writes to a copy of grid (the map of lines *)
(* 223, 236, 283, 313, 328, 342, 361, 374 and 384).                        *)
(***************************************************************************)
\* App.tsx lines 22-23 and, at the end of newPuzzle, lines 399-400: the App
\* takes the returned puzzle and shows its grid.
Mount ==
  /\ pc = "returned"
  /\ pc' = "mounted"
  /\ uiGrid' = puzzle.grid
  /\ UNCHANGED <<inputVars, solutionWord, attemptVars, bestVars, overlayVars, observerVars>>
  /\ UNCHANGED <<selectionVars, statusVars, hintVars, moves, timer, thrown>>

\* App.tsx lines 162-215, the desktop branch.
handleCellInteraction(row, col) ==
  /\ Handling
  /\ ~uiGrid[row][col].isBlack
  /\ LET cell == uiGrid[row][col]
         hasAcross == cell.acrossClue # Null
         hasDown == cell.downClue # Null
     IN  IF selectedCell = Some(<<row, col>>)
         THEN /\ direction' = toggleDirection(cell, direction)
              /\ UNCHANGED selectedCell
         ELSE /\ selectedCell' = Some(<<row, col>>)
              /\ direction' = IF hasAcross /\ ~hasDown THEN "across"
                              ELSE IF ~hasAcross /\ hasDown THEN "down"
                              ELSE direction
  /\ UNCHANGED <<uiGrid, statusVars, hintVars, genVars, observerVars, timer>>

\* App.tsx lines 218-230.
handleLetterInput(letter) ==
  /\ Handling
  /\ selectedCell # Null
  /\ LET row == selectedCell[1][1]
         col == selectedCell[1][2]
         newGrid == [uiGrid EXCEPT ![row][col] = typeInto(@, ToUpper(letter))]
     IN  /\ uiGrid' = newGrid
         /\ selectedCell' = moveToNextCell(row, col, direction)
         /\ checkComplete(newGrid)
  /\ UNCHANGED <<direction, hintVars, genVars, observerVars, timer>>

\* App.tsx lines 233-254 (the Backspace key, line 279).
handleDelete ==
  /\ Handling
  /\ selectedCell # Null
  /\ LET row == selectedCell[1][1]
         col == selectedCell[1][2]
         pr == IF direction = "across" THEN row ELSE row - 1
         pcol == IF direction = "across" THEN col - 1 ELSE col
     IN  IF uiGrid[row][col].userInput = ""
         THEN /\ selectedCell' = moveToPrevCell(row, col, direction)
              /\ uiGrid' = IF pr >= 0 /\ pcol >= 0 /\ ~uiGrid[pr][pcol].isBlack
                           THEN [uiGrid EXCEPT ![pr][pcol] = clearInput(@)]
                           ELSE uiGrid
         ELSE /\ uiGrid' = [uiGrid EXCEPT ![row][col] = clearInput(@)]
              /\ UNCHANGED selectedCell
  /\ UNCHANGED <<direction, statusVars, hintVars, genVars, observerVars, timer>>

\* App.tsx lines 281-289: the Delete key.
handleDeleteKey ==
  /\ Handling
  /\ selectedCell # Null
  /\ uiGrid' = [uiGrid EXCEPT ![selectedCell[1][1]][selectedCell[1][2]] = clearInput(@)]
  /\ UNCHANGED <<selectionVars, statusVars, hintVars, genVars, observerVars, timer>>

\* App.tsx lines 274-277: ArrowRight and ArrowDown move forward, ArrowLeft
\* and ArrowUp backward.
handleArrowKey(dir, forward) ==
  /\ Handling
  /\ selectedCell # Null
  /\ direction' = dir
  /\ selectedCell' = IF forward
                     THEN moveToNextCell(selectedCell[1][1], selectedCell[1][2], dir)
                     ELSE moveToPrevCell(selectedCell[1][1], selectedCell[1][2], dir)
  /\ UNCHANGED <<uiGrid, statusVars, hintVars, genVars, observerVars, timer>>

\* App.tsx lines 261-272: the Tab key.  With no word in the current direction
\* nextIdx is NaN and reading nextClue.row throws: the handler ends without a
\* state update.
handleTabKey(shiftKey) ==
  /\ Called
  /\ selectedCell # Null
  /\ LET activeClue == getActiveClue
         InDirection(pw) == pw.direction = direction
         clues == SelectSeq(puzzle.placedWords, InDirection)
         idx == findIndexOfNumber(clues, activeClue[1].number)
         nextIdx == (idx + (IF shiftKey THEN -1 ELSE 1) + Len(clues)) % Len(clues)
     IN  IF activeClue = Null
         THEN UNCHANGED selectedCell /\ thrown' = FALSE
         ELSE IF Len(clues) = 0
         THEN \* nextIdx is NaN, clues[NaN] is undefined, nextClue.row throws
              UNCHANGED selectedCell /\ thrown' = TRUE
         ELSE /\ selectedCell' = Some(<<clues[nextIdx + 1].row, clues[nextIdx + 1].col>>)
              /\ thrown' = FALSE
  /\ UNCHANGED <<uiGrid, direction, statusVars, hintVars, genVars, observerVars, timer>>

\* App.tsx lines 297-306: clue is the k-th placed word.
handleClueClick(k) ==
  /\ Handling
  /\ selectedCell' = Some(<<puzzle.placedWords[k].row, puzzle.placedWords[k].col>>)
  /\ direction' = puzzle.placedWords[k].direction
  /\ UNCHANGED <<uiGrid, statusVars, hintVars, genVars, observerVars, timer>>

\* revealCell without the limit on letter hints.
revealCell_NoLimit ==
  /\ Handling
  /\ selectedCell # Null
  /\ LET row == selectedCell[1][1]
         col == selectedCell[1][2]
         cell == uiGrid[row][col]
         newGrid == [uiGrid EXCEPT ![row][col] = reveal(@)]
     IN  /\ ~(cell.isBlack \/ cell.revealed \/ ToUpper(cell.userInput) = cell.letter)
         /\ uiGrid' = newGrid
         /\ checkComplete(newGrid)
  /\ hintsLetterUsed' = hintsLetterUsed + 1
  /\ UNCHANGED <<selectionVars, hintsWordUsed, genVars, observerVars, timer>>

\* App.tsx lines 308-322.
revealCell ==
  /\ Handling
  /\ selectedCell # Null
  /\ ~(hintsLetterUsed >= MAX_LETTER_HINTS)
  /\ LET row == selectedCell[1][1]
         col == selectedCell[1][2]
         cell == uiGrid[row][col]
         newGrid == [uiGrid EXCEPT ![row][col] = reveal(@)]
     IN  /\ ~(cell.isBlack \/ cell.revealed \/ ToUpper(cell.userInput) = cell.letter)
         /\ uiGrid' = newGrid
         /\ checkComplete(newGrid)
  /\ hintsLetterUsed' = hintsLetterUsed + 1
  /\ UNCHANGED <<selectionVars, hintsWordUsed, genVars, observerVars, timer>>

\* App.tsx lines 324-339.
revealWord ==
  /\ Handling
  /\ ~(hintsWordUsed >= MAX_WORD_HINTS)
  /\ getActiveClue # Null
  /\ \E cells \in { getClueCells(getActiveClue[1]) } :
       \E newGrid \in { [r \in Idx |-> [c \in Idx |->
                          IF <<r, c>> \in cells THEN reveal(uiGrid[r][c]) ELSE uiGrid[r][c]]] } :
         /\ uiGrid' = newGrid
         /\ checkComplete(newGrid)
  /\ hintsWordUsed' = hintsWordUsed + 1
  /\ UNCHANGED <<selectionVars, hintsLetterUsed, genVars, observerVars, timer>>

\* App.tsx lines 341-358.
revealAll ==
  /\ Handling
  /\ uiGrid' = [r \in Idx |-> [c \in Idx |->
                  IF ~uiGrid[r][c].isBlack THEN reveal(uiGrid[r][c]) ELSE uiGrid[r][c]]]
  /\ isComplete' = TRUE
  /\ isRunning' = FALSE
  /\ UNCHANGED <<selectionVars, hintVars, genVars, observerVars, timer>>

\* App.tsx lines 360-371.
checkPuzzle ==
  /\ Handling
  /\ uiGrid' = [r \in Idx |-> [c \in Idx |->
                  LET cell == uiGrid[r][c]
                  IN  IF ~cell.isBlack /\ cell.userInput # ""
                      THEN [cell EXCEPT !.checked = TRUE,
                                        !.isCorrect = Some(ToUpper(cell.userInput) = cell.letter)]
                      ELSE cell]]
  /\ UNCHANGED <<selectionVars, statusVars, hintVars, genVars, observerVars, timer>>

\* App.tsx lines 373-381.
clearPuzzle ==
  /\ Handling
  /\ uiGrid' = [r \in Idx |-> [c \in Idx |->
                  LET cell == uiGrid[r][c]
                  IN  [cell EXCEPT !.userInput = IF cell.revealed THEN cell.userInput ELSE "",
                                   !.checked = IF cell.revealed THEN cell.checked ELSE FALSE,
                                   !.isCorrect = IF cell.revealed THEN cell.isCorrect ELSE Null]]]
  /\ UNCHANGED <<selectionVars, statusVars, hintVars, genVars, observerVars, timer>>

\* App.tsx lines 383-395.
clearErrors ==
  /\ Handling
  /\ uiGrid' = [r \in Idx |-> [c \in Idx |->
                  LET cell == uiGrid[r][c]
                  IN  IF cell.checked /\ cell.isCorrect = Some(FALSE)
                      THEN clearInput(cell)
                      ELSE cell]]
  /\ UNCHANGED <<selectionVars, statusVars, hintVars, genVars, observerVars, timer>>

\* App.tsx line 503: the pause button.
toggleRunning ==
  /\ Handling
  /\ isRunning' = ~isRunning
  /\ UNCHANGED <<uiGrid, selectionVars, isComplete, hintVars, genVars, observerVars, timer>>

\* App.tsx lines 397-413: generatePuzzle runs again and the solving state is
\* reset.  The handler is one synchronous call: nothing reads grid before
\* setGrid(p.grid) of line 400 (Mount).
newPuzzle ==
  /\ pc = "mounted"
  /\ pc' = "pick"
  /\ uiGrid' = buildCellGrid(createEmptyGrid)
  /\ selectedCell' = Null
  /\ direction' = "across"
  /\ isComplete' = FALSE
  /\ isRunning' = TRUE
  /\ hintsLetterUsed' = 0
  /\ hintsWordUsed' = 0
  /\ moves' = 0
  /\ timer' = 0
  /\ thrown' = FALSE
  /\ UNCHANGED <<inputVars, solutionWord, attemptVars, bestVars, overlayVars, observerVars>>

\* A timer effect that tests isRunning only.
Tick_IgnoresComplete ==
  /\ pc = "mounted"
  /\ isRunning
  /\ timer < MaxTimer
  /\ timer' = timer + 1
  /\ UNCHANGED <<uiGrid, selectionVars, statusVars, hintVars, moves, thrown, genVars, observerVars>>

\* App.tsx lines 78-85: the interval of the timer effect fires; the effect
\* sets the interval only while isRunning && !isComplete.
Tick ==
  /\ pc = "mounted"
  /\ isRunning /\ ~isComplete
  /\ timer < MaxTimer
  /\ timer' = timer + 1
  /\ UNCHANGED <<uiGrid, selectionVars, statusVars, hintVars, moves, thrown, genVars, observerVars>>

AppNext ==
  \/ Next
  \/ Mount
  \/ \E row \in Idx : \E col \in Idx : handleCellInteraction(row, col)
  \/ \E letter \in Keys : handleLetterInput(letter)
  \/ handleDelete
  \/ handleDeleteKey
  \/ \E dir \in {"across", "down"} : \E forward \in BOOLEAN : handleArrowKey(dir, forward)
  \/ \E shiftKey \in BOOLEAN : handleTabKey(shiftKey)
  \/ \E k \in 1 .. Len(puzzle.placedWords) : handleClueClick(k)
  \/ revealCell
  \/ revealWord
  \/ revealAll
  \/ checkPuzzle
  \/ clearPuzzle
  \/ clearErrors
  \/ toggleRunning
  \/ newPuzzle

AppSpec == Init /\ [][AppNext]_vars

\* A longer session on a small puzzle, with the timer running.
SessionInit ==
  /\ \E s \in Scenarios :
       s.pool \in {PoolSingle, PoolCross} /\ wordPool = s.pool /\ solutionWords = s.solutionWords
  /\ GeneratorInit
  /\ AppInit
  /\ seed = 0 /\ rng = 0 /\ firstPuzzle = Null
  /\ attemptLog = <<>>
  /\ budget = MaxSessionActions

SessionNext == AppNext \/ Tick

SessionSpec == SessionInit /\ [][SessionNext]_vars

(***************************************************************************)
(* Properties.                                                             *)
(***************************************************************************)
CellsOf(pw) ==
  { <<RowOf(pw.row, pw.direction, i), ColOf(pw.col, pw.direction, i)>> : i \in 0 .. (Len(pw.word) - 1) }

LetterAt(pw, p) ==
  pw.word[(IF pw.direction = "across" THEN p[2] - pw.col ELSE p[1] - pw.row) + 1]

SharedCells(a, b) == { p \in CellsOf(a) : Covers(b, p[1], p[2]) }

CrossingsLegal(ws) ==
  \A a, b \in 1 .. Len(ws) :
    a # b => \A p \in SharedCells(ws[a], ws[b]) :
               /\ ws[a].direction # ws[b].direction
               /\ LetterAt(ws[a], p) = LetterAt(ws[b], p)

\* C1: during an attempt and in the returned puzzle, two placed words that
\* cover a common cell are perpendicular and agree on the letter there.
C1_CrossingsPerpendicular == CrossingsLegal(placed) /\ CrossingsLegal(bestPlaced)

C1_Witness ==
  /\ pc = "returned"
  /\ Len(bestPlaced) = 3
  /\ \E a, b \in 1 .. Len(bestPlaced) : a # b /\ SharedCells(bestPlaced[a], bestPlaced[b]) # {}

Touching(ws, dir) ==
  \E a, b \in 1 .. Len(ws) :
    /\ a # b
    /\ ws[a].direction = dir /\ ws[b].direction = dir
    /\ \E p \in CellsOf(ws[a]), q \in CellsOf(ws[b]) :
         IF dir = "across"
         THEN q[2] = p[2] /\ q[1] = p[1] + 1
         ELSE q[1] = p[1] /\ q[2] = p[2] + 1

NoBareAdjacency(ws, dir) ==
  \A a, b \in 1 .. Len(ws) :
    (a # b /\ ws[a].direction = dir /\ ws[b].direction = dir) =>
      \A p \in CellsOf(ws[a]), q \in CellsOf(ws[b]) :
        (IF dir = "across"
         THEN q[2] = p[2] /\ (q[1] = p[1] + 1 \/ q[1] = p[1] - 1)
         ELSE q[1] = p[1] /\ (q[2] = p[2] + 1 \/ q[2] = p[2] - 1))
        => \E d \in 1 .. Len(ws) :
             /\ ws[d].direction # dir
             /\ Covers(ws[d], p[1], p[2]) /\ Covers(ws[d], q[1], q[2])

\* C2: in the returned puzzle, cells of two different across words that lie
\* one above the other belong to one down word, and cells of two different
\* down words that lie side by side belong to one across word.
C2_NoParallelAdjacency ==
  pc = "returned" => NoBareAdjacency(bestPlaced, "across") /\ NoBareAdjacency(bestPlaced, "down")

C2_Witness ==
  /\ pc = "returned"
  /\ Touching(bestPlaced, "across")

\* C3: in the returned puzzle every entry of solutionCells points at a cell
\* whose letter is the solution letter of its index.
C3_SolutionLettersMatch ==
  pc = "returned" =>
    \A k \in 1 .. Len(solutionCells) :
      LET e == solutionCells[k]
      IN  cellGrid[e.row][e.col].letter = solutionWord[e.index + 1]

C3_Witness ==
  /\ pc = "returned"
  /\ \E k \in 1 .. Len(solutionCells) :
       LET e == solutionCells[k]
       IN  cellGrid[e.row][e.col].letter # bestGrid[e.row][e.col]

\* C4: from a non-empty pool and a non-empty solution word, the returned
\* puzzle has one solution cell per solution letter.
C4_OneCellPerLetter ==
  (pc = "returned" /\ Len(wordPool) > 0 /\ Len(solutionWord) > 0) =>
    Len(solutionCells) = Len(solutionWord)

StartCells(ws) == { <<ws[k].row, ws[k].col>> : k \in 1 .. Len(ws) }

RowMajorBefore(p, q) == p[1] < q[1] \/ (p[1] = q[1] /\ p[2] < q[2])

\* C5: the clue numbers are 1..k for k distinct start cells, they increase
\* in row-major order of the start cells, and two words have the same
\* number exactly when they have the same start cell.
C5_ClueNumbering ==
  pc = "returned" =>
    LET ws == bestPlaced
        n == Len(ws)
    IN  /\ { ws[k].number : k \in 1 .. n } = 1 .. Cardinality(StartCells(ws))
        /\ \A a, b \in 1 .. n :
             /\ (ws[a].number = ws[b].number) <=> (ws[a].row = ws[b].row /\ ws[a].col = ws[b].col)
             /\ RowMajorBefore(<<ws[a].row, ws[a].col>>, <<ws[b].row, ws[b].col>>)
                  => ws[a].number < ws[b].number

C5_Witness ==
  /\ pc = "returned"
  /\ Len(bestPlaced) = 3
  /\ Cardinality(StartCells(bestPlaced)) = 2

\* The placed words (indices into bestPlaced) through the cell (r, c).
WordsThrough(r, c) == { k \in 1 .. Len(bestPlaced) : Covers(bestPlaced[k], r, c) }

\* C6: a cell chosen by the strict rule lies on no placed word that already
\* holds a solution cell of an earlier solution letter.
C6_StrictOnePerWord ==
  (pc \in {"overlay", "returned"} /\ tier = "strict") =>
    LET e == solutionCells[Len(solutionCells)]
    IN  \A k \in WordsThrough(e.row, e.col) :
          \A j \in 1 .. (Len(solutionCells) - 1) :
            ~Covers(bestPlaced[k], solutionCells[j].row, solutionCells[j].col)

\* C7: with a non-empty solution-word list generatePuzzle returns and never
\* throws.
C7_AlwaysReturns ==
  (Len(solutionWords) > 0) => (<>(pc = "returned") /\ [](pc # "threw"))

C7_Witness ==
  /\ pc = "returned"
  /\ Len(bestPlaced) = 1

IsFiveSevenPool ==
  /\ Len(wordPool) = 2
  /\ { Len(wordPool[1].word), Len(wordPool[2].word) } = {5, 7}
  /\ \E i \in 1 .. Len(wordPool[1].word), j \in 1 .. Len(wordPool[2].word) :
       wordPool[1].word[i] = wordPool[2].word[j]

\* C8 as stated: a 5-letter and a 7-letter word with a common letter give
\* two placed words numbered 1 and 2 in row-major order of their start cells.
C8_TwoWordsNumberedOneTwo ==
  (pc = "returned" /\ IsFiveSevenPool) =>
    /\ Len(bestPlaced) = 2
    /\ bestPlaced[1].number = 1 /\ bestPlaced[2].number = 2
    /\ RowMajorBefore(<<bestPlaced[1].row, bestPlaced[1].col>>,
                      <<bestPlaced[2].row, bestPlaced[2].col>>)

\* C8 amended: two words are placed; they are numbered 1 and 2 in row-major
\* order of their start cells unless they start in the same cell, and then
\* both have number 1.
C8_TwoWordsNumbered ==
  (pc = "returned" /\ IsFiveSevenPool) =>
    /\ Len(bestPlaced) = 2
    /\ IF bestPlaced[1].row = bestPlaced[2].row /\ bestPlaced[1].col = bestPlaced[2].col
       THEN bestPlaced[1].number = 1 /\ bestPlaced[2].number = 1
       ELSE /\ bestPlaced[1].number = 1 /\ bestPlaced[2].number = 2
            /\ RowMajorBefore(<<bestPlaced[1].row, bestPlaced[1].col>>,
                              <<bestPlaced[2].row, bestPlaced[2].col>>)

C8_Witness ==
  /\ pc = "returned"
  /\ IsFiveSevenPool
  /\ Len(bestPlaced) = 2
  /\ bestPlaced[2].number = 2
  /\ bestPlaced[1].row < bestPlaced[2].row

\* The fields of a cell the generator sets (types.ts lines 289-303, 305-321
\* and the overlay).
GeneratorOwned(cell) ==
  [letter |-> cell.letter, isBlack |-> cell.isBlack, number |-> cell.number,
   acrossClue |-> cell.acrossClue, downClue |-> cell.downClue,
   isSolutionCell |-> cell.isSolutionCell, solutionIndex |-> cell.solutionIndex]

\* A step of a handler other than newPuzzle: the puzzle is mounted before
\* and after it.
UserStep == pc = "mounted" /\ pc' = "mounted"

\* C9: every step of a handler other than newPuzzle leaves the
\* generator-owned fields of every cell of the App's grid unchanged (only
\* userInput, revealed, checked and isCorrect can change) and leaves the
\* puzzle (its grid, placedWords, solutionWord and solutionCells) unchanged.
C9_HandlersKeepGeneratorFields ==
  [][UserStep =>
       /\ \A r \in Idx : \A c \in Idx :
            GeneratorOwned(uiGrid'[r][c]) = GeneratorOwned(uiGrid[r][c])
       /\ puzzle' = puzzle]_vars

\* A handler has written a letter that differs from the cell's letter.
C9_Witness ==
  /\ pc = "mounted"
  /\ \E r \in Idx : \E c \in Idx :
       /\ ~uiGrid[r][c].isBlack
       /\ uiGrid[r][c].userInput # ""
       /\ uiGrid[r][c].userInput # uiGrid[r][c].letter
       /\ uiGrid[r][c] # puzzle.grid[r][c]

\* C10: when generatePuzzle is invoked a second time with the same pool, the
\* same solution-word list and a random source that repeats the values of
\* the first invocation, it returns the puzzle the first invocation returned
\* (grid, placedWords, solutionWord and solutionCells).
C10_ReplayReturnsSamePuzzle ==
  (pc = "returned" /\ firstPuzzle # Null) => puzzle = firstPuzzle[1]

C10_Witness ==
  /\ pc = "returned"
  /\ firstPuzzle # Null
  /\ Len(bestPlaced) >= 3
  /\ Len(solutionCells) >= 2
  /\ seed # 0

\* The placed words of direction dir whose span contains (r, c).
WordsAt(ws, dir, r, c) ==
  { k \in 1 .. Len(ws) : ws[k].direction = dir /\ Covers(ws[k], r, c) }

\* The clue reference a cell must hold for direction dir.
ClueRefOk(ref, ws, dir, r, c) ==
  LET through == WordsAt(ws, dir, r, c)
  IN  IF through = {} THEN ref = Null
      ELSE /\ Cardinality(through) = 1
           /\ \A k \in through : ref = Some(ws[k].number)

\* C11: in the returned puzzle acrossClue of every cell is the number of the
\* one across word through the cell and null when there is none, and
\* downClue likewise for the down words.
C11_ClueReferences ==
  pc = "returned" =>
    \A r \in Idx : \A c \in Idx :
      /\ ClueRefOk(puzzle.grid[r][c].acrossClue, puzzle.placedWords, "across", r, c)
      /\ ClueRefOk(puzzle.grid[r][c].downClue, puzzle.placedWords, "down", r, c)

\* A returned puzzle with a crossing cell whose two clue references differ and
\* a cell that is not a start cell and holds a reference.
C11_Witness ==
  /\ pc = "returned"
  /\ \E r \in Idx : \E c \in Idx :
       /\ puzzle.grid[r][c].acrossClue # Null
       /\ puzzle.grid[r][c].downClue # Null
       /\ puzzle.grid[r][c].acrossClue # puzzle.grid[r][c].downClue
  /\ \E r \in Idx : \E c \in Idx :
       /\ puzzle.grid[r][c].number = Null
       /\ puzzle.grid[r][c].acrossClue # Null

\* C12: no two entries of solutionCells refer to the same cell and every
\* entry refers to a non-black cell, whichever tier chose it.
C12_SolutionCellsDistinct ==
  /\ \A i \in 1 .. Len(solutionCells) : \A j \in 1 .. Len(solutionCells) :
       (solutionCells[i].row = solutionCells[j].row /\ solutionCells[i].col = solutionCells[j].col)
         => i = j
  /\ \A i \in 1 .. Len(solutionCells) :
       ~cellGrid[solutionCells[i].row][solutionCells[i].col].isBlack

\* A returned puzzle with three solution cells, the last one chosen by a
\* fallback.
C12_Witness ==
  /\ pc = "returned"
  /\ Len(solutionCells) >= 3
  /\ tier \in {"fallbackA", "fallbackB"}

\* The cells whose letter the overlay replaced (line 404).
Overwritten(r, c) == puzzle.grid[r][c].letter # bestGrid[r][c]

\* The letter the placed word pw has for the cell (r, c) of its span.
WordLetterAt(pw, r, c) ==
  IF pw.direction = "across" THEN pw.word[c - pw.col + 1] ELSE pw.word[r - pw.row + 1]

\* C13: in the returned puzzle a cell is black exactly when no placed word
\* covers it, and a cell that fallback B did not overwrite holds the letter of
\* every placed word through it; only solution cells are overwritten.
C13_GridSpellsPlacedWords ==
  pc = "returned" =>
    \A r \in Idx : \A c \in Idx :
      LET through == { k \in 1 .. Len(puzzle.placedWords) : Covers(puzzle.placedWords[k], r, c) }
      IN  /\ puzzle.grid[r][c].isBlack <=> through = {}
          /\ Overwritten(r, c) => puzzle.grid[r][c].isSolutionCell
          /\ ~Overwritten(r, c) =>
                \A k \in through :
                  puzzle.grid[r][c].letter = WordLetterAt(puzzle.placedWords[k], r, c)

\* A returned puzzle of crossing words with an overwritten cell.
C13_Witness ==
  /\ pc = "returned"
  /\ Len(puzzle.placedWords) >= 2
  /\ \E r \in Idx : \E c \in Idx : Overwritten(r, c)

\* TRUE when (r, c) is off the grid or holds no letter in the letter grid g.
EmptyOrOffGrid(g, r, c) ==
  r \notin Idx \/ c \notin Idx \/ g[r][c] = ""

\* Every word of ws is capped in g: the cell before its start and the cell
\* after its end along its own axis are empty or off the grid.
EndsCapped(ws, g) ==
  \A k \in 1 .. Len(ws) :
    LET pw == ws[k]
        len == Len(pw.word)
    IN  /\ EmptyOrOffGrid(g, RowOf(pw.row, pw.direction, -1), ColOf(pw.col, pw.direction, -1))
        /\ EmptyOrOffGrid(g, RowOf(pw.row, pw.direction, len), ColOf(pw.col, pw.direction, len))

\* The letters of the cell grid cg as a letter grid.
LettersOf(cg) == [r \in Idx |-> [c \in Idx |-> cg[r][c].letter]]

\* C14: during an attempt, in the best layout kept and in the returned grid
\* every placed word is capped at both ends, also after later words were
\* committed: it is a maximal run of letters on its row or column.
C14_WordsAreMaximalRuns ==
  /\ EndsCapped(placed, grid)
  /\ EndsCapped(bestPlaced, bestGrid)
  /\ pc = "returned" => EndsCapped(puzzle.placedWords, LettersOf(puzzle.grid))

\* An attempt in which two words were committed after the seed word.
C14_Witness ==
  /\ pc = "place"
  /\ Len(placed) >= 3
  /\ \E k \in 1 .. Len(placed) : placed[k].direction = "down"
  /\ \E k \in 2 .. Len(placed) : placed[k].direction = "across"

\* A step of the placement loop that commits a word (lines 252-261).
Commits == pc = "place" /\ Len(placed') = Len(placed) + 1

\* The word a committing step appends.
Committed == placed'[Len(placed')]

\* C15: a word committed after the seed word covers, when it is committed, a
\* cell that holds a letter of an earlier placed word of the other direction.
C15_CommitsCrossAPerpendicularWord ==
  [][Commits =>
       \E p \in CellsOf(Committed) :
         /\ grid[p[1]][p[2]] # ""
         /\ \E k \in 1 .. Len(placed) :
              /\ placed[k].direction # Committed.direction
              /\ Covers(placed[k], p[1], p[2])]_vars

\* The second attempt or a later one has committed a down word on the seed.
C15_Witness ==
  /\ pc = "place"
  /\ attempt >= 1
  /\ Len(placed) = 2
  /\ placed[1].direction = "across"
  /\ placed[2].direction = "down"

\* TRUE when every word of ws lies inside the grid.
InsideGrid(ws) ==
  \A k \in 1 .. Len(ws) :
    /\ 0 <= ws[k].row
    /\ 0 <= ws[k].col
    /\ Len(ws[k].word) <= GRID_SIZE
    /\ IF ws[k].direction = "across"
       THEN ws[k].row < GRID_SIZE /\ ws[k].col + Len(ws[k].word) <= GRID_SIZE
       ELSE ws[k].col < GRID_SIZE /\ ws[k].row + Len(ws[k].word) <= GRID_SIZE

\* C16: every placed word, the seed word included, lies inside the 15x15
\* grid, in every attempt, in the best layout and in the returned puzzle; a
\* pool word longer than 15 letters is never placed.
C16_PlacedWordsInsideGrid ==
  /\ InsideGrid(placed)
  /\ InsideGrid(bestPlaced)
  /\ pc = "returned" => InsideGrid(puzzle.placedWords)

\* The pool holds a word of 16 letters and the returned puzzle holds a seed
\* word that ends in the last column.
C16_Witness ==
  /\ pc = "returned"
  /\ \E i \in 1 .. Len(wordPool) : Len(wordPool[i].word) > GRID_SIZE
  /\ \E k \in 1 .. Len(puzzle.placedWords) :
       puzzle.placedWords[k].col + Len(puzzle.placedWords[k].word) = GRID_SIZE

\* The words of ws with their positions, without order and clue numbers.
Layout(ws) ==
  { [word |-> ws[k].word, row |-> ws[k].row, col |-> ws[k].col,
     direction |-> ws[k].direction] : k \in 1 .. Len(ws) }

\* The earliest attempt of log among those that placed the most words.
EarliestBest(log) ==
  CHOOSE k \in 1 .. Len(log) :
    /\ \A j \in 1 .. Len(log) : Len(log[j].placed) <= Len(log[k].placed)
    /\ \A j \in 1 .. (k - 1) : Len(log[j].placed) < Len(log[k].placed)

\* TRUE when the returned cell grid shows the letter grid g: the same black
\* cells, and the same letter in every cell that is not a solution cell.
ShowsGrid(cg, g) ==
  \A r \in Idx, c \in Idx :
    /\ cg[r][c].isBlack <=> g[r][c] = ""
    /\ ~cg[r][c].isSolutionCell => cg[r][c].letter = g[r][c]

\* C17: the best layout, and in the end the returned placedWords and grid,
\* are the words and the grid of one single attempt: the earliest of the
\* attempts that placed the largest number of words, all 8 attempts counted.
C17_ReturnsEarliestBestAttempt ==
  attemptLog # <<>> =>
    LET best == attemptLog[EarliestBest(attemptLog)]
    IN  /\ Len(bestPlaced) = Len(best.placed)
        /\ Layout(bestPlaced) = Layout(best.placed)
        /\ bestGrid = best.grid
        /\ pc = "returned" =>
             /\ Len(attemptLog) = MAX_ATTEMPTS
             /\ Len(puzzle.placedWords) = Len(best.placed)
             /\ Layout(puzzle.placedWords) = Layout(best.placed)
             /\ ShowsGrid(puzzle.grid, best.grid)

\* A puzzle is returned whose layout is not the first attempt's, and a later
\* attempt placed as many words as the returned one.
C17_Witness ==
  /\ pc = "returned"
  /\ Len(attemptLog) = MAX_ATTEMPTS
  /\ EarliestBest(attemptLog) >= 2
  /\ \E j \in (EarliestBest(attemptLog) + 1) .. MAX_ATTEMPTS :
       Len(attemptLog[j].placed) = Len(bestPlaced)

\* Four times the score of the word at (dir, r, c) on the grid g: 10 for
\* every cell of the word that holds a letter, less half the distance of the
\* word's centre from row 7 and column 7.
QuarterScore(g, word, dir, r, c) ==
  LET lettered == { i \in 0 .. (Len(word) - 1) :
                      g[RowOf(r, dir, i)][ColOf(c, dir, i)] # "" }
      rowOffset2 == IF dir = "across" THEN 2 * r - 14 ELSE 2 * r + Len(word) - 14
      colOffset2 == IF dir = "across" THEN 2 * c + Len(word) - 14 ELSE 2 * c - 14
  IN  40 * Cardinality(lettered) - (Abs(rowOffset2) + Abs(colOffset2))

\* TRUE when the scan of the placements visits (d1, r1, c1) no later than
\* (d2, r2, c2): across before down, then by row, then by column.
ScannedNoLater(d1, r1, c1, d2, r2, c2) ==
  \/ d1 = "across" /\ d2 = "down"
  \/ d1 = d2 /\ r1 < r2
  \/ d1 = d2 /\ r1 = r2 /\ c1 <= c2

\* C18: a word committed after the seed is committed at a legal placement
\* whose score no legal placement exceeds, and which the scan (across before
\* down, rows ascending, columns ascending) visits before every other legal
\* placement of the same score.
C18_CommitsFirstBestLegalPlacement ==
  [][Commits =>
       \E occupied \in { getOccupied(placed) } :
         LET w == Committed
             mine == QuarterScore(grid, w.word, w.direction, w.row, w.col)
         IN  /\ w.word = shuffled[wi + 1].word
             /\ canPlaceWord(grid, w.word, w.row, w.col, w.direction, placed, occupied)
             /\ \A d \in {"across", "down"}, r \in Idx, c \in Idx :
                  canPlaceWord(grid, w.word, r, c, d, placed, occupied) =>
                    LET other == QuarterScore(grid, w.word, d, r, c)
                    IN  \/ other < mine
                        \/ /\ other = mine
                           /\ ScannedNoLater(w.direction, w.row, w.col, d, r, c)]_vars

\* A word has been committed where a second legal placement had the same
\* score: AB down through the first A of the seed ABA, not through the last.
C18_Witness ==
  /\ pc = "place"
  /\ Len(placed) >= 2
  /\ placed[1].word = <<"A","B","A">>
  /\ placed[2].direction = "down"
  /\ placed[2].col = placed[1].col
  /\ \E occupied \in { getOccupied(SubSeq(placed, 1, 1)) } :
       \E g \in { placeWord(createEmptyGrid, placed[1].word, placed[1].row, placed[1].col, "across") } :
         /\ canPlaceWord(g, placed[2].word, placed[2].row, placed[2].col + 2, "down",
                         SubSeq(placed, 1, 1), occupied)
         /\ QuarterScore(g, placed[2].word, "down", placed[2].row, placed[2].col + 2)
              = QuarterScore(g, placed[2].word, "down", placed[2].row, placed[2].col)

\* A step of the overlay loop that chooses a cell for a solution letter.
Chooses == pc = "overlay" /\ Len(solutionCells') = Len(solutionCells) + 1

\* The cell a choosing step records.
ChosenCell ==
  <<solutionCells'[Len(solutionCells')].row, solutionCells'[Len(solutionCells')].col>>

\* TRUE when an earlier solution letter claimed the cell p.
Claimed(p) ==
  \E n \in 1 .. Len(solutionCells) :
    solutionCells[n].row = p[1] /\ solutionCells[n].col = p[2]

\* TRUE when the placed word k holds the cell of an earlier solution letter.
Contributed(k) ==
  \E n \in 1 .. Len(solutionCells) :
    Covers(bestPlaced[k], solutionCells[n].row, solutionCells[n].col)

\* TRUE when no placed word through the cell p has contributed yet.
OnUnusedWordsOnly(p) ==
  \A k \in 1 .. Len(bestPlaced) :
    Covers(bestPlaced[k], p[1], p[2]) => ~Contributed(k)

\* The unclaimed letter cells that hold the letter.
UnclaimedMatching(letter) ==
  { p \in Idx \X Idx :
      /\ ~cellGrid[p[1]][p[2]].isBlack
      /\ cellGrid[p[1]][p[2]].letter = letter
      /\ ~Claimed(p) }

\* A letter is overwritten only when no unclaimed cell holds the letter.
OverwritesOnlyWithoutMatch ==
  Chooses =>
    (cellGrid'[ChosenCell[1]][ChosenCell[2]].letter
       # cellGrid[ChosenCell[1]][ChosenCell[2]].letter
     => UnclaimedMatching(solutionWord[si + 1]) = {})

\* A cell on a word that has contributed is chosen only when no unclaimed
\* matching cell lies on unused words only.
UsedWordOnlyWithoutUnused ==
  Chooses =>
    (~OnUnusedWordsOnly(ChosenCell)
     => \A p \in UnclaimedMatching(solutionWord[si + 1]) : ~OnUnusedWordsOnly(p))

\* Fallback A is taken only after the strict rule found nothing, fallback B
\* only after fallback A found nothing.
TiersTriedInOrder ==
  Chooses =>
    /\ tier' \in {"strict", "fallbackA", "fallbackB"}
    /\ tier' = "fallbackA" =>
         /\ UnclaimedMatching(solutionWord[si + 1]) # {}
         /\ \A p \in UnclaimedMatching(solutionWord[si + 1]) : ~OnUnusedWordsOnly(p)
    /\ tier' = "fallbackB" => UnclaimedMatching(solutionWord[si + 1]) = {}

\* C19: a grid letter is overwritten for a solution letter only when no
\* unclaimed letter cell holds that letter; a cell on a placed word that has
\* already contributed a solution letter is chosen only when no unclaimed
\* matching cell lies on unused words only; the tiers are tried in the order
\* strict, fallback A, fallback B.
C19_FallbacksOnlyWhenNeeded ==
  [][OverwritesOnlyWithoutMatch /\ UsedWordOnlyWithoutUnused /\ TiersTriedInOrder]_vars

\* A step of the overlay loop that takes fallback B (lines 396-406).
FallbackBStep == Chooses /\ tier' = "fallbackB"

\* C20: a fallback-B step changes the letter of the cell it chooses and of no
\* other cell; the black status of every cell, every other field of every
\* other cell, and the words and positions of the placed words stay as they
\* were.
C20_FallbackBChangesOneLetter ==
  [][FallbackBStep =>
       /\ cellGrid'[ChosenCell[1]][ChosenCell[2]].letter = solutionWord[si + 1]
       /\ cellGrid'[ChosenCell[1]][ChosenCell[2]].letter
            # cellGrid[ChosenCell[1]][ChosenCell[2]].letter
       /\ \A r \in Idx, c \in Idx :
            /\ cellGrid'[r][c].isBlack = cellGrid[r][c].isBlack
            /\ <<r, c>> # ChosenCell => cellGrid'[r][c] = cellGrid[r][c]
       /\ bestPlaced' = bestPlaced
       /\ bestGrid' = bestGrid]_vars

\* Fallback B has just overwritten a cell of a word of a two-word layout;
\* the other cells of the word still hold the word's letters.
C20_Witness ==
  /\ pc = "overlay"
  /\ tier = "fallbackB"
  /\ Len(bestPlaced) >= 2
  /\ Len(solutionCells) >= 1
  /\ LET e == solutionCells[Len(solutionCells)]
     IN  /\ cellGrid[e.row][e.col].letter # bestGrid[e.row][e.col]
         /\ \E k \in 1 .. Len(bestPlaced) :
              /\ Covers(bestPlaced[k], e.row, e.col)
              /\ \E r \in Idx, c \in Idx :
                   /\ <<r, c>> # <<e.row, e.col>>
                   /\ Covers(bestPlaced[k], r, c)
                   /\ cellGrid[r][c].letter = bestGrid[r][c]

\* TRUE when the words of ws are, in their order, words of the first n
\* entries of sh, each entry taken at most once.
SubsequenceOfFirst(ws, sh, n) ==
  \E f \in [1 .. Len(ws) -> 1 .. n] :
    /\ \A k \in 1 .. Len(ws) :
         ws[k].word = sh[f[k]].word /\ ws[k].clue = sh[f[k]].clue
    /\ \A k \in 1 .. Len(ws), l \in 1 .. Len(ws) : k < l => f[k] < f[l]

\* TRUE when the word of entry e is in the list ws.
InPlaced(ws, e) == \E k \in 1 .. Len(ws) : ws[k].word = e.word

\* An iteration of the placement loop: the word at index wi has its turn.
TakesTurn == pc = "place" /\ pc' = "place" /\ wi' = wi + 1

\* C21: within an attempt the words have their turn one at a time in the
\* shuffled order; the placed list is a subsequence of the words whose turn
\* has come; an iteration adds the word whose turn it is or nothing, so a
\* word that was not placed at its turn stays absent.
C21_EachWordHasOneTurn ==
  /\ [](pc = "place" => SubsequenceOfFirst(placed, shuffled, wi))
  /\ [][TakesTurn =>
          /\ \/ placed' = placed
             \/ /\ Len(placed') = Len(placed) + 1
                /\ SubSeq(placed', 1, Len(placed)) = placed
                /\ Committed.word = shuffled[wi + 1].word
          /\ \A i \in 1 .. wi :
               InPlaced(placed', shuffled[i]) <=> InPlaced(placed, shuffled[i])]_vars

\* At the end of an attempt a word that was skipped at its turn has a legal
\* placement on the grid and is not in the placed list.
C21_Witness ==
  /\ pc = "place"
  /\ wi = Len(shuffled)
  /\ Len(placed) >= 2
  /\ \E i \in 2 .. Len(shuffled) :
       /\ ~InPlaced(placed, shuffled[i])
       /\ \E occupied \in { getOccupied(placed) } :
            \E d \in {"across", "down"}, r \in Idx, c \in Idx :
              canPlaceWord(grid, shuffled[i].word, r, c, d, placed, occupied)

\* Four times the centrality penalty of a word of length len at (dir, r, c).
QuarterPenalty(len, dir, r, c) ==
  LET rowOffset2 == IF dir = "across" THEN 2 * r - 14 ELSE 2 * r + len - 14
      colOffset2 == IF dir = "across" THEN 2 * c + len - 14 ELSE 2 * c - 14
  IN  Abs(rowOffset2) + Abs(colOffset2)

\* The placements of a word of length len that lie inside the grid.
InGridPlacements(len) ==
  { t \in {"across", "down"} \X Idx \X Idx :
      IF t[1] = "across" THEN t[3] + len <= GRID_SIZE ELSE t[2] + len <= GRID_SIZE }

\* The placements of the word that canPlaceWord accepts on the current grid.
LegalPlacements(word) ==
  { t \in InGridPlacements(Len(word)) :
      canPlaceWord(grid, word, t[2], t[3], t[1], placed, getOccupied(placed)) }

\* C22: on a grid that holds a placed word every placement canPlaceWord
\* accepts scores more than 0: it has an intersection worth 10 and a penalty
\* of at most 7.25; so a word is skipped at its turn exactly when it has no
\* legal placement.  The bound on the penalty is a property of the arithmetic
\* alone and is stated for every word length and in-grid placement.
C22_LegalPlacementsScorePositive ==
  /\ [](pc = "pick" =>
          \A len \in 1 .. GRID_SIZE : \A t \in InGridPlacements(len) :
            QuarterPenalty(len, t[1], t[2], t[3]) <= 29)
  /\ [](pc = "place" /\ Len(placed) > 0 =>
          \A i \in 1 .. Len(shuffled) : \A t \in LegalPlacements(shuffled[i].word) :
            /\ QuarterScore(grid, shuffled[i].word, t[1], t[2], t[3]) > 0
            /\ QuarterScore(grid, shuffled[i].word, t[1], t[2], t[3])
                 >= 40 - QuarterPenalty(Len(shuffled[i].word), t[1], t[2], t[3]))
  /\ [][TakesTurn =>
          (placed' = placed <=> LegalPlacements(shuffled[wi + 1].word) = {})]_vars

\* The word whose turn it is has a legal placement far from the centre: its
\* score is less than 8.
C22_Witness ==
  /\ pc = "place"
  /\ Len(placed) > 0
  /\ wi < Len(shuffled)
  /\ \E t \in LegalPlacements(shuffled[wi + 1].word) :
       QuarterScore(grid, shuffled[wi + 1].word, t[1], t[2], t[3]) < 32

\* The placed words of ws with the clue number and the direction given.
WordsNumbered(ws, number, dir) ==
  { k \in 1 .. Len(ws) : ws[k].number = number /\ ws[k].direction = dir }

\* C23: in every returned puzzle no two placed words have the same clue
\* number and the same direction, so a clue reference of a cell together with
\* its direction names exactly one placed word.
C23_NumberAndDirectionIdentifyWord ==
  pc = "returned" =>
    /\ \A k \in 1 .. Len(puzzle.placedWords), l \in 1 .. Len(puzzle.placedWords) :
         (/\ puzzle.placedWords[k].number = puzzle.placedWords[l].number
          /\ puzzle.placedWords[k].direction = puzzle.placedWords[l].direction) => k = l
    /\ \A r \in Idx, c \in Idx :
         /\ puzzle.grid[r][c].acrossClue # Null =>
              Cardinality(WordsNumbered(puzzle.placedWords,
                                        puzzle.grid[r][c].acrossClue[1], "across")) = 1
         /\ puzzle.grid[r][c].downClue # Null =>
              Cardinality(WordsNumbered(puzzle.placedWords,
                                        puzzle.grid[r][c].downClue[1], "down")) = 1

\* A returned puzzle in which an across word and a down word have the same
\* clue number.
C23_Witness ==
  /\ pc = "returned"
  /\ \E k \in 1 .. Len(puzzle.placedWords), l \in 1 .. Len(puzzle.placedWords) :
       /\ puzzle.placedWords[k].number = puzzle.placedWords[l].number
       /\ puzzle.placedWords[k].direction = "across"
       /\ puzzle.placedWords[l].direction = "down"

\* The cells of the placed word pw.
SpanOf(pw) ==
  { <<RowOf(pw.row, pw.direction, i), ColOf(pw.col, pw.direction, i)>> :
      i \in 0 .. (Len(pw.word) - 1) }

\* TRUE when the words j and k of ws cross: they have different directions
\* and share a cell.
Cross(ws, j, k) ==
  /\ ws[j].direction # ws[k].direction
  /\ SpanOf(ws[j]) \cap SpanOf(ws[k]) # {}

\* TRUE when a cell of word j and a cell of word k of ws are the same cell or
\* orthogonal neighbours.
Touch(ws, j, k) ==
  \E p \in SpanOf(ws[j]), q \in SpanOf(ws[k]) :
    Abs(p[1] - q[1]) + Abs(p[2] - q[2]) <= 1

\* The words of ws that a chain of crossing words links to a word of S.
RECURSIVE LinkedWords(_, _)
LinkedWords(ws, S) ==
  LET more == { k \in 1 .. Len(ws) : k \in S \/ \E j \in S : Cross(ws, j, k) }
  IN  IF more = S THEN S ELSE LinkedWords(ws, more)

\* The words of ws that a chain of touching words links to a word of S.
RECURSIVE TouchingWords(_, _)
TouchingWords(ws, S) ==
  LET more == { k \in 1 .. Len(ws) : k \in S \/ \E j \in S : Touch(ws, j, k) }
  IN  IF more = S THEN S ELSE TouchingWords(ws, more)

\* The cells of g that hold a letter.
LetterCellsOf(g) == { p \in Idx \X Idx : g[p[1]][p[2]] # "" }

\* TRUE when a chain of crossing words links every word of ws to the first
\* word, and the letter cells of g are one orthogonally connected region:
\* every letter cell lies on a word, a word is a straight run of cells, and
\* a chain of touching words links every word to the first.
OneRegion(ws, g) ==
  /\ ws # <<>> => LinkedWords(ws, {1}) = 1 .. Len(ws)
  /\ ws # <<>> => TouchingWords(ws, {1}) = 1 .. Len(ws)
  /\ LetterCellsOf(g) = UNION { SpanOf(ws[k]) : k \in 1 .. Len(ws) }

\* C24: in every state of an attempt, in the best layout and in the returned
\* grid the letter cells form one orthogonally connected region, and every
\* placed word is linked to the seed word by a chain of crossing words.
C24_LayoutIsConnected ==
  /\ pc = "place" => OneRegion(placed, grid)
  /\ OneRegion(bestPlaced, bestGrid)
  /\ pc = "returned" => OneRegion(puzzle.placedWords, LettersOf(puzzle.grid))

\* Three words are placed and the third does not touch the seed word: only
\* the second word links them.
C24_Witness ==
  /\ pc = "place"
  /\ Len(placed) = 3
  /\ ~Cross(placed, 1, 3)
  /\ Cross(placed, 1, 2)
  /\ Cross(placed, 2, 3)

\* The clue reference of the App's cell (r, c) in the direction d.
ClueRef(r, c, d) ==
  IF d = "across" THEN uiGrid[r][c].acrossClue ELSE uiGrid[r][c].downClue

\* TRUE when w is a placed word of the puzzle.
IsPlacedWord(w) == \E k \in 1 .. Len(puzzle.placedWords) : puzzle.placedWords[k] = w

\* C25: the selected cell is null or a cell of the App's grid that is not
\* black, and for a selected cell getActiveClue returns a placed word through
\* the cell: one of the current direction if the cell has a clue reference
\* in that direction, one of the other direction otherwise.
C25_SelectionHasActiveClue ==
  selectedCell # Null =>
    LET r == selectedCell[1][1]
        c == selectedCell[1][2]
    IN  /\ r \in Idx /\ c \in Idx
        /\ ~uiGrid[r][c].isBlack
        /\ getActiveClue # Null
        /\ IsPlacedWord(getActiveClue[1])
        /\ Covers(getActiveClue[1], r, c)
        /\ getActiveClue[1].direction =
             IF ClueRef(r, c, direction) # Null THEN direction
             ELSE OtherDirection(direction)

\* A cell is selected that has no clue reference in the current direction.
C25_Witness ==
  /\ pc = "mounted"
  /\ selectedCell # Null
  /\ ClueRef(selectedCell[1][1], selectedCell[1][2], direction) = Null
  /\ getActiveClue # Null

\* TRUE when checked and isCorrect of the cell agree with its input.
CheckMarksAgree(cell) ==
  IF cell.checked
  THEN /\ cell.userInput # ""
       /\ cell.isCorrect = Some(cell.userInput = cell.letter)
  ELSE cell.isCorrect = Null

\* C26: for every cell of the App's grid, isCorrect is null when checked is
\* false, and when checked is true userInput is not empty and isCorrect is
\* true exactly when userInput is the cell's letter; a step that changes the
\* userInput of a cell leaves its check marks reset or recomputed.
C26_CheckMarksFollowInput ==
  /\ [](\A r \in Idx, c \in Idx : CheckMarksAgree(uiGrid[r][c]))
  /\ [][\A r \in Idx, c \in Idx :
          uiGrid'[r][c].userInput # uiGrid[r][c].userInput =>
            \/ ~uiGrid'[r][c].checked /\ uiGrid'[r][c].isCorrect = Null
            \/ /\ uiGrid'[r][c].checked
               /\ uiGrid'[r][c].isCorrect
                    = Some(uiGrid'[r][c].userInput = uiGrid'[r][c].letter)]_vars

\* A check has marked a wrong input.
C26_Witness ==
  /\ pc = "mounted"
  /\ \E r \in Idx, c \in Idx :
       /\ uiGrid[r][c].checked
       /\ uiGrid[r][c].isCorrect = Some(FALSE)
       /\ uiGrid[r][c].userInput # uiGrid[r][c].letter

(***************************************************************************)
(* The hint session: one four-letter word, so that three letter hints      *)
(* leave a fourth cell to ask for, and the handlers that select a cell,    *)
(* type into it, ask for a hint and start a new puzzle.                    *)
(***************************************************************************)
\* The second word shares no letter with the first: whichever is the seed, the
\* other is examined and skipped.
PoolFour == <<Entry(<<"A","B","A","B">>, "c1"), Entry(<<"X","X">>, "c2")>>

MaxHintActions == 8

HintInit ==
  /\ \/ wordPool = PoolFour /\ solutionWords = << <<"B">> >>
     \/ wordPool = PoolSingle /\ solutionWords = << >>
  /\ GeneratorInit /\ AppInit
  /\ seed = 0 /\ rng = 0 /\ firstPuzzle = Null
  /\ attemptLog = <<>>
  /\ budget = MaxHintActions

HintNext ==
  \/ Next
  \/ Mount
  \/ \E k \in 1 .. Len(puzzle.placedWords) : handleClueClick(k)
  \/ \E forward \in BOOLEAN : handleArrowKey("across", forward)
  \/ \E letter \in {"a", "X"} : handleLetterInput(letter)
  \/ revealCell
  \/ revealWord
  \/ newPuzzle

HintSpec == HintInit /\ [][HintNext]_vars

\* A reveal-cell request that the claim says is refused: the three letter
\* hints are used, or the selected cell is black, revealed or already right.
LetterHintRefused ==
  \/ hintsLetterUsed >= 3
  \/ /\ selectedCell # Null
     /\ LET cell == uiGrid[selectedCell[1][1]][selectedCell[1][2]]
        IN  cell.isBlack \/ cell.revealed \/ ToUpper(cell.userInput) = cell.letter

NewPuzzleStep == pc = "mounted" /\ pc' = "pick"

\* C27: hintsLetterUsed never exceeds 3 and hintsWordUsed never exceeds 1; a
\* reveal-cell request with 3 letter hints used, or on a black, revealed or
\* already correct cell, and a reveal-word request with the word hint used,
\* take no step (they change neither the grid nor the counters); a counter
\* rises by one at a time and only from a state where the request is not
\* refused, and it falls only in a newPuzzle step, which sets both to 0.
C27_HintLimitsHold ==
  /\ [](hintsLetterUsed <= 3 /\ hintsWordUsed <= 1)
  /\ [](LetterHintRefused => ~ENABLED revealCell)
  /\ [](hintsWordUsed >= 1 => ~ENABLED revealWord)
  /\ [][/\ hintsLetterUsed' > hintsLetterUsed
           => hintsLetterUsed' = hintsLetterUsed + 1 /\ ~LetterHintRefused
        /\ hintsWordUsed' > hintsWordUsed
           => hintsWordUsed' = hintsWordUsed + 1 /\ hintsWordUsed < 1
        /\ (hintsLetterUsed' < hintsLetterUsed \/ hintsWordUsed' < hintsWordUsed)
           => NewPuzzleStep /\ hintsLetterUsed' = 0 /\ hintsWordUsed' = 0]_vars

\* Three letter hints are used, a cell that is neither revealed nor right is
\* selected, and the user can still ask for a fourth.
C27_Witness ==
  /\ pc = "mounted"
  /\ hintsLetterUsed = 3
  /\ moves < budget
  /\ selectedCell # Null
  /\ LET cell == uiGrid[selectedCell[1][1]][selectedCell[1][2]]
     IN  ~cell.isBlack /\ ~cell.revealed /\ ToUpper(cell.userInput) # cell.letter

\* C28: from a state where isComplete is true, every step other than a
\* newPuzzle step leaves isComplete true and does not increase timer.
C28_CompleteStopsTimer ==
  [][(isComplete /\ ~NewPuzzleStep) => (isComplete' /\ timer' <= timer)]_vars

\* The puzzle was completed by typing (no cell is revealed) after the timer
\* had advanced, and the user has pressed resume since: isRunning is true and
\* the timer is below its cap.
C28_Witness ==
  /\ pc = "mounted"
  /\ isComplete /\ isRunning
  /\ timer > 0 /\ timer < MaxTimer
  /\ \A r \in Idx : \A c \in Idx : ~uiGrid[r][c].revealed

\* C29: in every state of the App, every cell whose revealed flag is true
\* has userInput equal to its letter.
C29_RevealedShowsLetter ==
  \A r \in Idx : \A c \in Idx :
    uiGrid[r][c].revealed => uiGrid[r][c].userInput = uiGrid[r][c].letter

\* The placed words of the current direction, in placedWords order.
CluesOfDirection ==
  LET InDirection(pw) == pw.direction = direction
  IN  SelectSeq(puzzle.placedWords, InDirection)

\* The 1-based place of the active clue among the words of the current
\* direction, 0 when it is not one of them.
PlaceOfActiveClue ==
  IF \E i \in 1 .. Len(CluesOfDirection) : CluesOfDirection[i] = getActiveClue[1]
  THEN CHOOSE i \in 1 .. Len(CluesOfDirection) : CluesOfDirection[i] = getActiveClue[1]
  ELSE 0

StartOf(pw) == Some(<<pw.row, pw.col>>)

TabStep(shiftKey) == selectedCell # Null /\ handleTabKey(shiftKey)

\* C30: a Tab or Shift+Tab press with a cell selected does not throw and
\* moves the selection to the start cell of a placed word of the current
\* direction; when the active clue is of the current direction, that word is
\* the one after (Shift+Tab: before) it among the words of the direction,
\* wrapping around.
C30_TabSelectsNextClue ==
  [][\A shiftKey \in BOOLEAN :
       TabStep(shiftKey) =>
         /\ ~thrown'
         /\ \E i \in 1 .. Len(CluesOfDirection) : selectedCell' = StartOf(CluesOfDirection[i])
         /\ PlaceOfActiveClue > 0 =>
              LET n == Len(CluesOfDirection)
                  j == ((PlaceOfActiveClue - 1 + (IF shiftKey THEN n - 1 ELSE 1)) % n) + 1
              IN  selectedCell' = StartOf(CluesOfDirection[j])]_vars

\* The same statement for the presses made while a word of the current
\* direction exists.
TabSelectsNextClueWhenAny ==
  [][\A shiftKey \in BOOLEAN :
       (TabStep(shiftKey) /\ Len(CluesOfDirection) > 0) =>
         /\ ~thrown'
         /\ \E i \in 1 .. Len(CluesOfDirection) : selectedCell' = StartOf(CluesOfDirection[i])
         /\ PlaceOfActiveClue > 0 =>
              LET n == Len(CluesOfDirection)
                  j == ((PlaceOfActiveClue - 1 + (IF shiftKey THEN n - 1 ELSE 1)) % n) + 1
              IN  selectedCell' = StartOf(CluesOfDirection[j])]_vars

\* Tab is pressed while the active clue was resolved in the other direction
\* and words of the current direction exist.
TabFromOtherDirection ==
  /\ pc = "mounted" /\ moves < budget
  /\ selectedCell # Null
  /\ getActiveClue # Null
  /\ getActiveClue[1].direction # direction
  /\ Len(CluesOfDirection) > 0
====
